---- MODULE Spec2Model ----
(***************************************************************************)
(* Model of the chat backend of my-realtime-chat: ChatGateway (socket.io   *)
(* event handlers) on top of ChatService (Redis lists and keys).           *)
(*                                                                         *)
(* Every handler is an async function.  Its suspension points are the      *)
(* awaited Redis commands, so a handler is a sequence of atomic steps:     *)
(* the moment a Redis command is applied by the store, and the             *)
(* continuation that runs when its reply is processed.  Handlers of        *)
(* different requests (of the same or of different connections, in the     *)
(* same or in different server processes) interleave freely at those       *)
(* points.  A Redis command that fails is rejected without being applied.  *)
(***************************************************************************)
EXTENDS Integers, Sequences, FiniteSets, TLC

\* ---------------------------------------------------------------- bounds
MaxReq == 3            \* inbound events handled in one behaviour
MaxReqPresence == 2    \* the same, in SpecPresence
MaxReqInput == 2       \* the same, in SpecInput
MaxReqHistory == 2     \* the same, in SpecHistory
MaxLog == 12           \* messages of earlier runs held by the lobby in SpecHistory
MaxPageSize == 6       \* page sizes for which the page windows are compared
MaxPageIndex == 4      \* page indexes for which the page windows are compared
MaxFlight == 2         \* handlers suspended at an await at the same time
MaxFail == 1           \* Redis commands rejected in one behaviour
MaxClose == 1          \* sockets that close in one behaviour (all may in SpecPresence)
MaxSignal == 2         \* disconnect signals handled for one socket in SpecSignals
MaxRetryAttempts == 32 \* the larger REDIS_RETRY_ATTEMPTS in SpecRedis
MaxReqFair == 2        \* inbound events in SpecFair

\* ------------------------------------------------------- program constants
TailCount == 10        \* getLastMessages: Math.max(length - 10, 0)

\* ------------------------------------------------------------ input sets
Null == ""             \* undefined / null / empty string: all falsy in JS
\* Socket ids (client.id).  They are random strings, taken to differ from
\* every room name a client sends.
Conns == {"s1", "s2"}
Users == {"alice", "bob"}
SepUsers == {"x", "x:x"}      \* usernames that hold the separator of the keys
Names == Users \cup SepUsers
RoomNames == {"lobby", "dev"}
Texts == {"hi"}
Reqs == 1..MaxReq

VARIABLES
    status,        \* status[c]: "new" | "open" | "closed"   (socket.connected)
    dataUsername,  \* client.data.username
    dataRoom,      \* client.data.room
    rooms,         \* rooms[c]: the room names socket c has joined (adapter)
    presence,      \* Redis keys user_sockets:<username>
    roomLog,       \* Redis lists room:<room>
    pmLog,         \* Redis lists PM:<from>:<to>, by key
    outbox,        \* outbox[c]: the events delivered to socket c, in order
    handlers,      \* handlers[h]: the handler of the h-th inbound event
    disc,          \* disc[c]: the handleDisconnect call of socket c, and how many there were
    nreq,          \* inbound events so far; also the clock read by Date.now()
    nfail,         \* Redis commands rejected so far
    isShuttingDown, \* isShuttingDown of the owner of each Redis client
    retryAttempts, \* REDIS_RETRY_ATTEMPTS
    redisClient    \* redisClient[k]: the connection of Redis client k

\* The Redis connection state; the gateway's handlers leave it alone.
redisVars == <<isShuttingDown, retryAttempts, redisClient>>

vars == <<status, dataUsername, dataRoom, rooms, presence, roomLog, pmLog,
          outbox, handlers, disc, nreq, nfail, redisVars>>

\* ------------------------------------------------------------- helpers
Truthy(s) == s # Null

\* JSON.stringify / JSON.parse of a stored entry.
Stringify(obj) == <<"json", obj>>
CanParse(str) == Len(str) = 2 /\ str[1] = "json"
Parse(str) == str[2]

RECURSIVE ParseAll_NoFilter(_)
\* Mutant: the entries that fail to parse stay in the result as null.
ParseAll_NoFilter(items) ==
    IF items = <<>> THEN <<>>
    ELSE IF CanParse(Head(items))
         THEN <<Parse(Head(items))>> \o ParseAll_NoFilter(Tail(items))
         ELSE <<Null>> \o ParseAll_NoFilter(Tail(items))

RECURSIVE ParseAll(_)
\* items.map(JSON.parse or null).filter(not null)
ParseAll(items) ==
    IF items = <<>> THEN <<>>
    ELSE IF CanParse(Head(items)) THEN <<Parse(Head(items))>> \o ParseAll(Tail(items))
         ELSE ParseAll(Tail(items))

\* Redis LRANGE key start end: 0-based and inclusive, a negative index counts
\* from the tail, and the range is clipped to the list.
LRange(list, start, end) ==
    LET s0 == IF start < 0 THEN Len(list) + start ELSE start
        e0 == IF end < 0 THEN Len(list) + end ELSE end
        lo == IF s0 < 0 THEN 0 ELSE s0
        hi == IF e0 > Len(list) - 1 THEN Len(list) - 1 ELSE e0
    IN  IF lo > hi THEN <<>> ELSE SubSeq(list, lo + 1, hi + 1)

Max(a, b) == IF a > b THEN a ELSE b

Event(type, data, h) == [type |-> type, data |-> data, by |-> h]
ErrorEvent(text, h) == Event("error", [message |-> text], h)

\* The sockets an emit reaches.  A closed socket is no longer in
\* namespace.sockets, so nothing is written to it.
Open(c) == status[c] = "open"
\* Mutant: every socket id the adapter lists for the room, connected or not.
InRoom_Listed(room) == {c \in Conns : room \in rooms[c]}
InRoom(room) == {c \in Conns : Open(c) /\ room \in rooms[c]}   \* server.to(room)
ToSocket(sid) == {c \in Conns : Open(c) /\ c = sid}            \* server.to(id), client.emit
OthersInRoom(c, room) == InRoom(room) \ {c}                    \* client.broadcast.to(room)

Emit(ob, targets, e) ==
    [c \in Conns |-> IF c \in targets THEN Append(ob[c], e) ELSE ob[c]]

NoHandler ==
    [kind |-> "none", conn |-> Null, data |-> [none |-> TRUE], pc |-> "idle",
     len |-> 0, items |-> <<>>, sock |-> Null, outcome |-> Null]

InFlight == {h \in Reqs : handlers[h].pc \notin {"idle", "done"}}

\* A handler that returned keeps only what it was and how it ended.
Done(kind, c, outcome) ==
    [NoHandler EXCEPT !.kind = kind, !.conn = c, !.pc = "done", !.outcome = outcome]

Finish(h, outcome) ==
    [handlers EXCEPT ![h] = Done(handlers[h].kind, handlers[h].conn, outcome)]

\* A new inbound event on socket c becomes handler nreq + 1.  Socket ids are
\* interchangeable: the first inbound event of a behaviour is on socket s1.
Accept(c) ==
    /\ Open(c)
    /\ nreq = 0 => c = "s1"
    /\ nreq < MaxReq
    /\ Cardinality(InFlight) < MaxFlight
    /\ nreq' = nreq + 1

NewHandler(kind, c, data, pc) ==
    [NoHandler EXCEPT !.kind = kind, !.conn = c, !.data = data, !.pc = pc]

\* const key = `PM:${from}:${to}`
PMKey(from, to) == "PM:" \o from \o ":" \o to
PMKeys == {PMKey(n[1], n[2]) : n \in Names \X Names}

\* The lists of the store outlive the server: the lobby holds one message of
\* an earlier run, the other room none.
OldMessage == [sender |-> "bob", room |-> "lobby", message |-> "hi", timestamp |-> 0]

\* The Redis clients of the process.  redisClient is the client of
\* ChatService; pubClient is the client of RedisIoAdapter, whose subClient is
\* a duplicate with the same options and the same owner.
RedisClients == {"redisClient", "pubClient"}

\* reconnectStrategy returning false.
NoRetry == -1

\* The default of REDIS_RETRY_ATTEMPTS.
DefaultRetryAttempts == 5

\* Both clients connected, the default configuration, no shutdown.
RedisReady ==
    /\ isShuttingDown = [k \in RedisClients |-> FALSE]
    /\ retryAttempts = DefaultRetryAttempts
    /\ redisClient = [k \in RedisClients |-> [phase |-> "ready", retries |-> 0, retryIn |-> 0, connected |-> TRUE]]

Init ==
    /\ status = [c \in Conns |-> "new"]
    /\ dataUsername = [c \in Conns |-> Null]
    /\ dataRoom = [c \in Conns |-> Null]
    /\ rooms = [c \in Conns |-> {}]
    /\ presence = [u \in Names |-> Null]
    /\ roomLog = [r \in RoomNames |-> IF r = "lobby" THEN <<Stringify(OldMessage)>> ELSE <<>>]
    /\ pmLog = [k \in PMKeys |-> <<>>]
    /\ outbox = [c \in Conns |-> <<>>]
    /\ handlers = [h \in Reqs |-> NoHandler]
    /\ disc = [c \in Conns |-> [pc |-> "idle", username |-> Null, room |-> Null, signals |-> 0]]
    /\ nreq = 0
    /\ nfail = 0
    /\ RedisReady

\* ------------------------------------------------------ handleConnection
HandleConnection(c) ==
    /\ status[c] = "new"
    /\ status' = [status EXCEPT ![c] = "open"]
    /\ UNCHANGED <<redisVars, dataUsername, dataRoom, rooms, presence, roomLog, pmLog,
                   outbox, handlers, disc, nreq, nfail>>

\* -------------------------------------------------------- handleJoinRoom
\* join_room arrives: validation, then setUserSocket issues SET.
JoinRoomStart(c, data) ==
    /\ Accept(c)
    /\ LET h == nreq + 1 IN
       IF ~Truthy(data.username) \/ ~Truthy(data.room)
       THEN /\ outbox' = Emit(outbox, ToSocket(c),
                              ErrorEvent("Username and room are required", h))
            /\ handlers' = [handlers EXCEPT
                   ![h] = Done("join", c, "invalid")]
       ELSE /\ handlers' = [handlers EXCEPT ![h] = NewHandler("join", c, data, "join_set")]
            /\ UNCHANGED outbox
    /\ UNCHANGED <<redisVars, status, dataUsername, dataRoom, rooms, presence, roomLog, pmLog, disc, nfail>>

\* Mutant: SET with NX, which keeps an existing entry.
SetUserSocket_NX(username, socketId) ==
    IF presence[username] = Null THEN [presence EXCEPT ![username] = socketId] ELSE presence

\* redisClient.set(`user_sockets:${username}`, socketId)
SetUserSocket(username, socketId) == [presence EXCEPT ![username] = socketId]

\* SET is applied by the store.
JoinRoomSet(h) ==
    /\ handlers[h].pc = "join_set"
    /\ presence' = SetUserSocket(handlers[h].data.username, handlers[h].conn)
    /\ handlers' = [handlers EXCEPT ![h].pc = "join_attach"]
    /\ UNCHANGED <<redisVars, status, dataUsername, dataRoom, rooms, roomLog, pmLog, outbox, disc, nreq, nfail>>

\* Mutant: client.data and the room are set before the SET is awaited.
JoinRoomSetFail_Attached(h) ==
    /\ nfail < MaxFail
    /\ nfail' = nfail + 1
    /\ handlers[h].pc = "join_set"
    /\ LET c == handlers[h].conn IN
       /\ dataUsername' = [dataUsername EXCEPT ![c] = handlers[h].data.username]
       /\ dataRoom' = [dataRoom EXCEPT ![c] = handlers[h].data.room]
       /\ rooms' = [rooms EXCEPT ![c] = @ \cup {handlers[h].data.room}]
    /\ outbox' = Emit(outbox, ToSocket(handlers[h].conn),
                      ErrorEvent("Failed to join room", h))
    /\ handlers' = Finish(h, "bind_failed")
    /\ UNCHANGED <<redisVars, status, presence, roomLog, pmLog, disc, nreq>>

\* SET is rejected: .catch throws WsException('Failed to join room').
JoinRoomSetFail(h) ==
    /\ nfail < MaxFail
    /\ nfail' = nfail + 1
    /\ handlers[h].pc = "join_set"
    /\ outbox' = Emit(outbox, ToSocket(handlers[h].conn),
                      ErrorEvent("Failed to join room", h))
    /\ handlers' = Finish(h, "bind_failed")
    /\ UNCHANGED <<redisVars, status, dataUsername, dataRoom, rooms, presence, roomLog, pmLog, disc, nreq>>

\* The reply of SET is processed: client.data is set, the socket joins the
\* room, and getLastMessages issues LLEN.
\* Mutant: the handler binds the socket and does not join it to the room.
JoinRoomAttach_NoJoin(h) ==
    /\ handlers[h].pc = "join_attach"
    /\ LET c == handlers[h].conn IN
       /\ dataUsername' = [dataUsername EXCEPT ![c] = handlers[h].data.username]
       /\ dataRoom' = [dataRoom EXCEPT ![c] = handlers[h].data.room]
    /\ handlers' = [handlers EXCEPT ![h].pc = "join_llen"]
    /\ UNCHANGED <<redisVars, status, rooms, presence, roomLog, pmLog, outbox, disc, nreq, nfail>>

JoinRoomAttach(h) ==
    /\ handlers[h].pc = "join_attach"
    /\ LET c == handlers[h].conn IN
       /\ dataUsername' = [dataUsername EXCEPT ![c] = handlers[h].data.username]
       /\ dataRoom' = [dataRoom EXCEPT ![c] = handlers[h].data.room]
       /\ rooms' = [rooms EXCEPT ![c] = @ \cup {handlers[h].data.room}]
    /\ handlers' = [handlers EXCEPT ![h].pc = "join_llen"]
    /\ UNCHANGED <<redisVars, status, presence, roomLog, pmLog, outbox, disc, nreq, nfail>>

\* LLEN is applied; length === 0 returns [] without a range read.
JoinRoomLLen(h) ==
    /\ handlers[h].pc = "join_llen"
    /\ LET length == Len(roomLog[handlers[h].data.room]) IN
       handlers' = [handlers EXCEPT
           ![h].len = length,
           ![h].pc = IF length = 0 THEN "join_emit" ELSE "join_lrange"]
    /\ UNCHANGED <<redisVars, status, dataUsername, dataRoom, rooms, presence, roomLog, pmLog,
                   outbox, disc, nreq, nfail>>

\* Mutant: the range read starts at the head of the list.
JoinRoomLRange_Head(h) ==
    /\ handlers[h].pc = "join_lrange"
    /\ LET length == handlers[h].len
           start == 0
           end == (IF length < TailCount THEN length ELSE TailCount) - 1
       IN  handlers' = [handlers EXCEPT
               ![h].items = LRange(roomLog[handlers[h].data.room], start, end),
               ![h].pc = "join_emit"]
    /\ UNCHANGED <<redisVars, status, dataUsername, dataRoom, rooms, presence, roomLog, pmLog,
                   outbox, disc, nreq, nfail>>

\* LRANGE key max(length - 10, 0) length - 1 is applied.
JoinRoomLRange(h) ==
    /\ handlers[h].pc = "join_lrange"
    /\ LET length == handlers[h].len
           start == Max(length - TailCount, 0)
           end == length - 1
       IN  handlers' = [handlers EXCEPT
               ![h].items = LRange(roomLog[handlers[h].data.room], start, end),
               ![h].pc = "join_emit"]
    /\ UNCHANGED <<redisVars, status, dataUsername, dataRoom, rooms, presence, roomLog, pmLog,
                   outbox, disc, nreq, nfail>>

\* LLEN or LRANGE is rejected: the inner catch reports it.
JoinRoomHistoryFail(h) ==
    /\ nfail < MaxFail
    /\ nfail' = nfail + 1
    /\ handlers[h].pc \in {"join_llen", "join_lrange"}
    /\ handlers' = [handlers EXCEPT ![h].pc = "join_emit_nohistory"]
    /\ UNCHANGED <<redisVars, status, dataUsername, dataRoom, rooms, presence, roomLog, pmLog,
                   outbox, disc, nreq>>

\* Mutant: user_joined goes out with this.server.to(room).
JoinRoomEmit_ToRoom(h) ==
    /\ handlers[h].pc \in {"join_emit", "join_emit_nohistory"}
    /\ LET c == handlers[h].conn
           d == handlers[h].data
           first == IF handlers[h].pc = "join_emit"
                    THEN Event("last_messages", ParseAll(handlers[h].items), h)
                    ELSE ErrorEvent("Failed to load message history", h)
           ob1 == Emit(outbox, ToSocket(c), first)
       IN  outbox' = Emit(ob1, InRoom(d.room),
                          Event("user_joined", [username |-> d.username, room |-> d.room], h))
    /\ handlers' = Finish(h, IF handlers[h].pc = "join_emit" THEN "ok" ELSE "no_history")
    /\ UNCHANGED <<redisVars, status, dataUsername, dataRoom, rooms, presence, roomLog, pmLog, disc,
                   nreq, nfail>>

\* last_messages (or the history error) to the requester, user_joined to the others.
JoinRoomEmit(h) ==
    /\ handlers[h].pc \in {"join_emit", "join_emit_nohistory"}
    /\ LET c == handlers[h].conn
           d == handlers[h].data
           first == IF handlers[h].pc = "join_emit"
                    THEN Event("last_messages", ParseAll(handlers[h].items), h)
                    ELSE ErrorEvent("Failed to load message history", h)
           ob1 == Emit(outbox, ToSocket(c), first)
       IN  outbox' = Emit(ob1, OthersInRoom(c, d.room),
                          Event("user_joined", [username |-> d.username, room |-> d.room], h))
    /\ handlers' = Finish(h, IF handlers[h].pc = "join_emit" THEN "ok" ELSE "no_history")
    /\ UNCHANGED <<redisVars, status, dataUsername, dataRoom, rooms, presence, roomLog, pmLog, disc, nreq, nfail>>

\* getLastMessages on a list that stays as it is between LLEN and LRANGE.
GetLastMessages(list) ==
    LET length == Len(list) IN
    IF length = 0 THEN <<>>
    ELSE LET start == Max(length - TailCount, 0)
             end == length - 1
         IN  ParseAll(LRange(list, start, end))

\* ------------------------------------------------------ handleSendMessage
ChatMessage(data, h) ==
    [sender |-> data.username, room |-> data.room, message |-> data.message, timestamp |-> h]

\* Mutant: neither the gateway nor storeMessage checks the payload.
SendMessageStart_Unchecked(c, data) ==
    /\ Accept(c)
    /\ LET h == nreq + 1 IN
       handlers' = [handlers EXCEPT ![h] = NewHandler("send", c, data, "send_rpush")]
    /\ UNCHANGED <<redisVars, status, dataUsername, dataRoom, rooms, presence, roomLog, pmLog,
                   outbox, disc, nfail>>

\* send_message arrives: validation, then storeMessage issues RPUSH.
SendMessageStart(c, data) ==
    /\ Accept(c)
    /\ LET h == nreq + 1 IN
       IF ~Truthy(data.username) \/ ~Truthy(data.room) \/ ~Truthy(data.message)
       THEN /\ outbox' = Emit(outbox, ToSocket(c), ErrorEvent("Invalid message payload", h))
            /\ handlers' = [handlers EXCEPT
                   ![h] = Done("send", c, "invalid")]
       ELSE /\ handlers' = [handlers EXCEPT ![h] = NewHandler("send", c, data, "send_rpush")]
            /\ UNCHANGED outbox
    /\ UNCHANGED <<redisVars, status, dataUsername, dataRoom, rooms, presence, roomLog, pmLog, disc, nfail>>

\* Mutant: lPush instead of rPush.
StoreMessage_LPush(msg) == [roomLog EXCEPT ![msg.room] = <<Stringify(msg)>> \o @]

\* redisClient.rPush(`room:${msg.room}`, JSON.stringify(msg))
StoreMessage(msg) == [roomLog EXCEPT ![msg.room] = Append(@, Stringify(msg))]

\* Mutant: the publish is issued without awaiting the append.
SendMessageStore_PublishFirst(h) ==
    /\ handlers[h].pc = "send_rpush"
    /\ outbox' = Emit(outbox, InRoom(handlers[h].data.room),
                      Event("receive_message", ChatMessage(handlers[h].data, h), h))
    /\ handlers' = [handlers EXCEPT ![h].pc = "send_emit"]
    /\ UNCHANGED <<redisVars, status, dataUsername, dataRoom, rooms, presence, roomLog, pmLog, disc,
                   nreq, nfail>>

\* RPUSH is applied by the store.
SendMessageStore(h) ==
    /\ handlers[h].pc = "send_rpush"
    /\ roomLog' = StoreMessage(ChatMessage(handlers[h].data, h))
    /\ handlers' = [handlers EXCEPT ![h].pc = "send_emit"]
    /\ UNCHANGED <<redisVars, status, dataUsername, dataRoom, rooms, presence, pmLog, outbox, disc, nreq, nfail>>

\* Mutant: the rejected append is swallowed and the handler goes on to publish.
SendMessageStoreFail_Swallowed(h) ==
    /\ nfail < MaxFail
    /\ nfail' = nfail + 1
    /\ handlers[h].pc = "send_rpush"
    /\ handlers' = [handlers EXCEPT ![h].pc = "send_emit"]
    /\ UNCHANGED <<redisVars, status, dataUsername, dataRoom, rooms, presence, roomLog, pmLog,
                   outbox, disc, nreq>>

\* RPUSH is rejected: .catch throws WsException('Failed to send message').
SendMessageStoreFail(h) ==
    /\ nfail < MaxFail
    /\ nfail' = nfail + 1
    /\ handlers[h].pc = "send_rpush"
    /\ outbox' = Emit(outbox, ToSocket(handlers[h].conn),
                      ErrorEvent("Failed to send message", h))
    /\ handlers' = Finish(h, "store_failed")
    /\ UNCHANGED <<redisVars, status, dataUsername, dataRoom, rooms, presence, roomLog, pmLog, disc, nreq>>

\* Mutant: client.broadcast.to(room) instead of this.server.to(room).
SendMessageBroadcast_ExceptSender(h) ==
    /\ handlers[h].pc = "send_emit"
    /\ outbox' = Emit(outbox, OthersInRoom(handlers[h].conn, handlers[h].data.room),
                      Event("receive_message", ChatMessage(handlers[h].data, h), h))
    /\ handlers' = Finish(h, "ok")
    /\ UNCHANGED <<redisVars, status, dataUsername, dataRoom, rooms, presence, roomLog, pmLog, disc,
                   nreq, nfail>>

\* this.server.to(room).emit('receive_message', chatMessage)
SendMessageBroadcast(h) ==
    /\ handlers[h].pc = "send_emit"
    /\ outbox' = Emit(outbox, InRoom(handlers[h].data.room),
                      Event("receive_message", ChatMessage(handlers[h].data, h), h))
    /\ handlers' = Finish(h, "ok")
    /\ UNCHANGED <<redisVars, status, dataUsername, dataRoom, rooms, presence, roomLog, pmLog, disc, nreq, nfail>>

\* ----------------------------------------------------------- handleTyping
\* Mutant: user_typing goes out with this.server.to(room).
HandleTyping_ToRoom(c, data) ==
    /\ Accept(c)
    /\ LET h == nreq + 1 IN
       IF ~Truthy(data.username) \/ ~Truthy(data.room)
       THEN /\ handlers' = [handlers EXCEPT
                   ![h] = Done("typing", c, "invalid")]
            /\ UNCHANGED outbox
       ELSE /\ outbox' = Emit(outbox, InRoom(data.room),
                              Event("user_typing",
                                    [username |-> data.username, isTyping |-> data.isTyping], h))
            /\ handlers' = [handlers EXCEPT
                   ![h] = Done("typing", c, "ok")]
    /\ UNCHANGED <<redisVars, status, dataUsername, dataRoom, rooms, presence, roomLog, pmLog, disc, nfail>>

\* No await: one step.  An invalid payload is only logged.
HandleTyping(c, data) ==
    /\ Accept(c)
    /\ LET h == nreq + 1 IN
       IF ~Truthy(data.username) \/ ~Truthy(data.room)
       THEN /\ handlers' = [handlers EXCEPT
                   ![h] = Done("typing", c, "invalid")]
            /\ UNCHANGED outbox
       ELSE /\ outbox' = Emit(outbox, OthersInRoom(c, data.room),
                              Event("user_typing",
                                    [username |-> data.username, isTyping |-> data.isTyping], h))
            /\ handlers' = [handlers EXCEPT
                   ![h] = Done("typing", c, "ok")]
    /\ UNCHANGED <<redisVars, status, dataUsername, dataRoom, rooms, presence, roomLog, pmLog, disc, nfail>>

\* --------------------------------------------------- handlePrivateMessage
\* send_private_message arrives: validation, then storePrivateMessage issues RPUSH.
PrivateMessageStart(c, data) ==
    /\ Accept(c)
    /\ LET h == nreq + 1 IN
       IF ~Truthy(data.from) \/ ~Truthy(data.to) \/ ~Truthy(data.message)
       THEN /\ outbox' = Emit(outbox, ToSocket(c),
                              ErrorEvent("Invalid private message payload", h))
            /\ handlers' = [handlers EXCEPT
                   ![h] = Done("pm", c, "invalid")]
       ELSE /\ handlers' = [handlers EXCEPT ![h] = NewHandler("pm", c, data, "pm_rpush")]
            /\ UNCHANGED outbox
    /\ UNCHANGED <<redisVars, status, dataUsername, dataRoom, rooms, presence, roomLog, pmLog, disc, nfail>>

PrivateMsg(data, h) ==
    [from |-> data.from, to |-> data.to, message |-> data.message, timestamp |-> h]

\* Mutant: the key is built as PM:<to>:<from>.
StorePrivateMessage_Reversed(from, to, msgObj) ==
    [pmLog EXCEPT ![PMKey(to, from)] = Append(@, Stringify(msgObj))]

\* redisClient.rPush(`PM:${from}:${to}`, JSON.stringify(msgObj))
StorePrivateMessage(from, to, msgObj) ==
    [pmLog EXCEPT ![PMKey(from, to)] = Append(@, Stringify(msgObj))]

\* RPUSH is applied by the store.
PrivateMessageStore(h) ==
    /\ handlers[h].pc = "pm_rpush"
    /\ LET d == handlers[h].data IN
       pmLog' = StorePrivateMessage(d.from, d.to, PrivateMsg(d, h))
    /\ handlers' = [handlers EXCEPT ![h].pc = "pm_get"]
    /\ UNCHANGED <<redisVars, status, dataUsername, dataRoom, rooms, presence, roomLog, outbox, disc, nreq, nfail>>

\* RPUSH is rejected: .catch throws WsException('Failed to send private message').
PrivateMessageStoreFail(h) ==
    /\ nfail < MaxFail
    /\ nfail' = nfail + 1
    /\ handlers[h].pc = "pm_rpush"
    /\ outbox' = Emit(outbox, ToSocket(handlers[h].conn),
                      ErrorEvent("Failed to send private message", h))
    /\ handlers' = Finish(h, "store_failed")
    /\ UNCHANGED <<redisVars, status, dataUsername, dataRoom, rooms, presence, roomLog, pmLog, disc, nreq>>

\* redisClient.get(`user_sockets:${username}`)
GetUserSocket(username) == presence[username]

\* GET is applied by the store.
PrivateMessageLookup(h) ==
    /\ handlers[h].pc = "pm_get"
    /\ handlers' = [handlers EXCEPT ![h].sock = GetUserSocket(handlers[h].data.to),
                                    ![h].pc = "pm_emit"]
    /\ UNCHANGED <<redisVars, status, dataUsername, dataRoom, rooms, presence, roomLog, pmLog,
                   outbox, disc, nreq, nfail>>

\* GET is rejected: getUserSocket rethrows a plain Error, the outer catch reports it.
PrivateMessageLookupFail(h) ==
    /\ nfail < MaxFail
    /\ nfail' = nfail + 1
    /\ handlers[h].pc = "pm_get"
    /\ outbox' = Emit(outbox, ToSocket(handlers[h].conn),
                      ErrorEvent("Failed to send private message", h))
    /\ handlers' = Finish(h, "lookup_failed")
    /\ UNCHANGED <<redisVars, status, dataUsername, dataRoom, rooms, presence, roomLog, pmLog, disc, nreq>>

\* Mutant: the offline branch is missing, the sender is confirmed in any case.
PrivateMessageDeliver_AlwaysConfirm(h) ==
    /\ handlers[h].pc = "pm_emit"
    /\ LET c == handlers[h].conn
           d == handlers[h].data
       IN  outbox' =
               Emit(Emit(outbox, ToSocket(handlers[h].sock),
                         Event("receive_private_message",
                               [from |-> d.from, message |-> d.message, timestamp |-> nreq], h)),
                    ToSocket(c),
                    Event("private_message_sent",
                          [to |-> d.to, message |-> d.message, timestamp |-> nreq], h))
    /\ handlers' = Finish(h, IF Truthy(handlers[h].sock) THEN "ok" ELSE "offline")
    /\ UNCHANGED <<redisVars, status, dataUsername, dataRoom, rooms, presence, roomLog, pmLog, disc,
                   nreq, nfail>>

\* Mutant: the private message is emitted to the recipient's room.
PrivateMessageDeliver_ToRoom(h) ==
    /\ handlers[h].pc = "pm_emit"
    /\ LET c == handlers[h].conn
           d == handlers[h].data
           recipientSocketId == handlers[h].sock
       IN  IF ~Truthy(recipientSocketId)
           THEN /\ outbox' = Emit(outbox, ToSocket(c), ErrorEvent("User is offline", h))
                /\ handlers' = Finish(h, "offline")
           ELSE /\ outbox' =
                      Emit(Emit(outbox, InRoom(dataRoom[recipientSocketId]),
                                Event("receive_private_message",
                                      [from |-> d.from, message |-> d.message,
                                       timestamp |-> nreq], h)),
                           ToSocket(c),
                           Event("private_message_sent",
                                 [to |-> d.to, message |-> d.message, timestamp |-> nreq], h))
                /\ handlers' = Finish(h, "ok")
    /\ UNCHANGED <<redisVars, status, dataUsername, dataRoom, rooms, presence, roomLog, pmLog, disc,
                   nreq, nfail>>

\* if (!recipientSocketId) { client.emit('error', 'User is offline'); return; }
\* else receive_private_message to the recipient, private_message_sent to the sender.
PrivateMessageDeliver(h) ==
    /\ handlers[h].pc = "pm_emit"
    /\ LET c == handlers[h].conn
           d == handlers[h].data
           recipientSocketId == handlers[h].sock
       IN  IF ~Truthy(recipientSocketId)
           THEN /\ outbox' = Emit(outbox, ToSocket(c), ErrorEvent("User is offline", h))
                /\ handlers' = Finish(h, "offline")
           ELSE /\ outbox' =
                      Emit(Emit(outbox, ToSocket(recipientSocketId),
                                Event("receive_private_message",
                                      [from |-> d.from, message |-> d.message,
                                       timestamp |-> nreq], h)),
                           ToSocket(c),
                           Event("private_message_sent",
                                 [to |-> d.to, message |-> d.message, timestamp |-> nreq], h))
                /\ handlers' = Finish(h, "ok")
    /\ UNCHANGED <<redisVars, status, dataUsername, dataRoom, rooms, presence, roomLog, pmLog, disc, nreq, nfail>>

\* ----------------------------------------------- handleFetchOlderMessages
\* Mutant: getMessagesPage does not check its arguments.
FetchOlderStart_Unchecked(c, data) ==
    /\ Accept(c)
    /\ LET h == nreq + 1 IN
       IF ~Truthy(data.room) \/ data.pageSize = 0
       THEN /\ outbox' = Emit(outbox, ToSocket(c),
                              ErrorEvent("Invalid pagination parameters", h))
            /\ handlers' = [handlers EXCEPT
                   ![h] = Done("fetch", c, "invalid")]
       ELSE /\ handlers' = [handlers EXCEPT ![h] = NewHandler("fetch", c, data, "fetch_llen")]
            /\ UNCHANGED outbox
    /\ UNCHANGED <<redisVars, status, dataUsername, dataRoom, rooms, presence, roomLog, pmLog, disc, nfail>>

\* fetch_older_messages arrives: the gateway checks !room || !pageSize, then
\* getMessagesPage checks pageSize <= 0 || pageIndex < 0 and issues LLEN.
FetchOlderStart(c, data) ==
    /\ Accept(c)
    /\ LET h == nreq + 1 IN
       IF ~Truthy(data.room) \/ data.pageSize = 0
       THEN /\ outbox' = Emit(outbox, ToSocket(c),
                              ErrorEvent("Invalid pagination parameters", h))
            /\ handlers' = [handlers EXCEPT
                   ![h] = Done("fetch", c, "invalid")]
       ELSE IF data.pageSize <= 0 \/ data.pageIndex < 0
       THEN /\ outbox' = Emit(outbox, ToSocket(c), ErrorEvent("Failed to fetch messages", h))
            /\ handlers' = [handlers EXCEPT
                   ![h] = Done("fetch", c, "page_invalid")]
       ELSE /\ handlers' = [handlers EXCEPT ![h] = NewHandler("fetch", c, data, "fetch_llen")]
            /\ UNCHANGED outbox
    /\ UNCHANGED <<redisVars, status, dataUsername, dataRoom, rooms, presence, roomLog, pmLog, disc, nfail>>

\* getMessagesPage with valid arguments on a list that stays as it is
\* between LLEN and LRANGE.
GetMessagesPage(list, pageSize, pageIndex) ==
    LET length == Len(list) IN
    IF length = 0 THEN <<>>
    ELSE LET skipFromRight == pageIndex * pageSize
             end == length - 1 - skipFromRight
         IN  IF end < 0 THEN <<>>
             ELSE LET start == Max(end - (pageSize - 1), 0)
                  IN  ParseAll(LRange(list, start, end))

\* Mutant: the check of end < 0 is missing.
FetchOlderLLen_NoEndCheck(h) ==
    /\ handlers[h].pc = "fetch_llen"
    /\ LET d == handlers[h].data
           length == Len(roomLog[d.room])
       IN  handlers' = [handlers EXCEPT
               ![h].len = length,
               ![h].pc = IF length = 0 THEN "fetch_emit" ELSE "fetch_lrange"]
    /\ UNCHANGED <<redisVars, status, dataUsername, dataRoom, rooms, presence, roomLog, pmLog,
                   outbox, disc, nreq, nfail>>

\* LLEN is applied; length === 0 and end < 0 return [] without a range read.
FetchOlderLLen(h) ==
    /\ handlers[h].pc = "fetch_llen"
    /\ LET d == handlers[h].data
           length == Len(roomLog[d.room])
           skipFromRight == d.pageIndex * d.pageSize
           end == length - 1 - skipFromRight
       IN  handlers' = [handlers EXCEPT
               ![h].len = length,
               ![h].pc = IF length = 0 \/ end < 0 THEN "fetch_emit" ELSE "fetch_lrange"]
    /\ UNCHANGED <<redisVars, status, dataUsername, dataRoom, rooms, presence, roomLog, pmLog,
                   outbox, disc, nreq, nfail>>

\* Mutant: the window starts one entry early, at end - pageSize.
FetchOlderLRange_OneMore(h) ==
    /\ handlers[h].pc = "fetch_lrange"
    /\ LET d == handlers[h].data
           end == handlers[h].len - 1 - d.pageIndex * d.pageSize
           start == Max(end - d.pageSize, 0)
       IN  handlers' = [handlers EXCEPT
               ![h].items = LRange(roomLog[d.room], start, end),
               ![h].pc = "fetch_emit"]
    /\ UNCHANGED <<redisVars, status, dataUsername, dataRoom, rooms, presence, roomLog, pmLog,
                   outbox, disc, nreq, nfail>>

\* LRANGE key max(end - (pageSize - 1), 0) end is applied.
FetchOlderLRange(h) ==
    /\ handlers[h].pc = "fetch_lrange"
    /\ LET d == handlers[h].data
           end == handlers[h].len - 1 - d.pageIndex * d.pageSize
           start == Max(end - (d.pageSize - 1), 0)
       IN  handlers' = [handlers EXCEPT
               ![h].items = LRange(roomLog[d.room], start, end),
               ![h].pc = "fetch_emit"]
    /\ UNCHANGED <<redisVars, status, dataUsername, dataRoom, rooms, presence, roomLog, pmLog,
                   outbox, disc, nreq, nfail>>

\* LLEN or LRANGE is rejected: .catch throws WsException('Failed to fetch messages').
FetchOlderFail(h) ==
    /\ nfail < MaxFail
    /\ nfail' = nfail + 1
    /\ handlers[h].pc \in {"fetch_llen", "fetch_lrange"}
    /\ outbox' = Emit(outbox, ToSocket(handlers[h].conn),
                      ErrorEvent("Failed to fetch messages", h))
    /\ handlers' = Finish(h, "read_failed")
    /\ UNCHANGED <<redisVars, status, dataUsername, dataRoom, rooms, presence, roomLog, pmLog, disc, nreq>>

\* this.server.to(client.id).emit('older_messages', olderMsgs)
FetchOlderEmit(h) ==
    /\ handlers[h].pc = "fetch_emit"
    /\ outbox' = Emit(outbox, ToSocket(handlers[h].conn),
                      Event("older_messages", ParseAll(handlers[h].items), h))
    /\ handlers' = Finish(h, "ok")
    /\ UNCHANGED <<redisVars, status, dataUsername, dataRoom, rooms, presence, roomLog, pmLog, disc, nreq, nfail>>

\* ------------------------------------------------------- handleDisconnect
\* The socket closes: it leaves its rooms, then handleDisconnect reads
\* client.data and, when a username is bound, removeUserSocket issues DEL.
HandleDisconnect(c) ==
    /\ Open(c)
    /\ status' = [status EXCEPT ![c] = "closed"]
    /\ rooms' = [rooms EXCEPT ![c] = {}]
    /\ disc' = [disc EXCEPT ![c] =
           [pc |-> IF Truthy(dataUsername[c]) THEN "disc_del" ELSE "done",
            username |-> dataUsername[c], room |-> dataRoom[c], signals |-> 1]]
    /\ UNCHANGED <<redisVars, dataUsername, dataRoom, presence, roomLog, pmLog, outbox, handlers, nreq, nfail>>

\* handleDisconnect is called once more for a socket that has closed and whose
\* earlier call has returned: client.data still holds the username and room.
HandleDisconnectAgain(c) ==
    /\ status[c] = "closed"
    /\ disc[c].pc = "done"
    /\ disc[c].signals < MaxSignal
    /\ disc' = [disc EXCEPT ![c] =
           [pc |-> IF Truthy(dataUsername[c]) THEN "disc_del" ELSE "done",
            username |-> dataUsername[c], room |-> dataRoom[c],
            signals |-> disc[c].signals + 1]]
    /\ UNCHANGED <<redisVars, status, dataUsername, dataRoom, rooms, presence, roomLog, pmLog,
                   outbox, handlers, nreq, nfail>>

\* redisClient.del(`user_sockets:${username}`)
RemoveUserSocket(username) == [presence EXCEPT ![username] = Null]

\* DEL is applied by the store.
DisconnectUnbind(c) ==
    /\ disc[c].pc = "disc_del"
    /\ presence' = RemoveUserSocket(disc[c].username)
    /\ disc' = [disc EXCEPT ![c].pc = "disc_emit"]
    /\ UNCHANGED <<redisVars, status, dataUsername, dataRoom, rooms, roomLog, pmLog, outbox, handlers, nreq, nfail>>

\* DEL is rejected: the catch only logs.
DisconnectUnbindFail(c) ==
    /\ nfail < MaxFail
    /\ nfail' = nfail + 1
    /\ disc[c].pc = "disc_del"
    /\ disc' = [disc EXCEPT ![c].pc = "done"]
    /\ UNCHANGED <<redisVars, status, dataUsername, dataRoom, rooms, presence, roomLog, pmLog,
                   outbox, handlers, nreq>>

\* Mutant: user_left goes to every connected socket of the namespace.
DisconnectAnnounce_Everyone(c) ==
    /\ disc[c].pc = "disc_emit"
    /\ outbox' = IF Truthy(disc[c].room)
                 THEN Emit(outbox, {t \in Conns : Open(t)},
                           Event("user_left",
                                 [username |-> disc[c].username, room |-> disc[c].room], 0))
                 ELSE outbox
    /\ disc' = [disc EXCEPT ![c].pc = "done"]
    /\ UNCHANGED <<redisVars, status, dataUsername, dataRoom, rooms, presence, roomLog, pmLog,
                   handlers, nreq, nfail>>

\* if (room) client.broadcast.to(room).emit('user_left', { username, room })
DisconnectAnnounce(c) ==
    /\ disc[c].pc = "disc_emit"
    /\ outbox' = IF Truthy(disc[c].room)
                 THEN Emit(outbox, OthersInRoom(c, disc[c].room),
                           Event("user_left",
                                 [username |-> disc[c].username, room |-> disc[c].room], 0))
                 ELSE outbox
    /\ disc' = [disc EXCEPT ![c].pc = "done"]
    /\ UNCHANGED <<redisVars, status, dataUsername, dataRoom, rooms, presence, roomLog, pmLog,
                   handlers, nreq, nfail>>

\* ------------------------------------------------------------------ Spec
\* closes: how many sockets may close in one behaviour.
ConnectionSteps(closes) ==
    \/ \E c \in Conns : HandleConnection(c)
    \/ \E c \in Conns :
           /\ Cardinality({d \in Conns : status[d] = "closed"}) < closes
           /\ HandleDisconnect(c)
    \/ \E c \in Conns : DisconnectUnbind(c)
    \/ \E c \in Conns : DisconnectUnbindFail(c)
    \/ \E c \in Conns : DisconnectAnnounce(c)

JoinSteps(payloads, cap) ==
    \/ \E c \in Conns, data \in payloads : nreq < cap /\ JoinRoomStart(c, data)
    \/ \E h \in Reqs : JoinRoomSet(h)
    \/ \E h \in Reqs : JoinRoomSetFail(h)
    \/ \E h \in Reqs : JoinRoomAttach(h)
    \/ \E h \in Reqs : JoinRoomLLen(h)
    \/ \E h \in Reqs : JoinRoomLRange(h)
    \/ \E h \in Reqs : JoinRoomHistoryFail(h)
    \/ \E h \in Reqs : JoinRoomEmit(h)

SendSteps(payloads, cap) ==
    \/ \E c \in Conns, data \in payloads : nreq < cap /\ SendMessageStart(c, data)
    \/ \E h \in Reqs : SendMessageStore(h)
    \/ \E h \in Reqs : SendMessageStoreFail(h)
    \/ \E h \in Reqs : SendMessageBroadcast(h)

TypingSteps(payloads, cap) ==
    \E c \in Conns, data \in payloads : nreq < cap /\ HandleTyping(c, data)

PrivateSteps(payloads, cap) ==
    \/ \E c \in Conns, data \in payloads : nreq < cap /\ PrivateMessageStart(c, data)
    \/ \E h \in Reqs : PrivateMessageStore(h)
    \/ \E h \in Reqs : PrivateMessageStoreFail(h)
    \/ \E h \in Reqs : PrivateMessageLookup(h)
    \/ \E h \in Reqs : PrivateMessageLookupFail(h)
    \/ \E h \in Reqs : PrivateMessageDeliver(h)

FetchSteps(payloads, cap) ==
    \/ \E c \in Conns, data \in payloads : nreq < cap /\ FetchOlderStart(c, data)
    \/ \E h \in Reqs : FetchOlderLLen(h)
    \/ \E h \in Reqs : FetchOlderLRange(h)
    \/ \E h \in Reqs : FetchOlderFail(h)
    \/ \E h \in Reqs : FetchOlderEmit(h)

\* All five handlers, one username and one room.
Next ==
    \/ ConnectionSteps(MaxClose)
    \/ JoinSteps([username : {"alice"}, room : {"lobby"}], MaxReq)
    \/ SendSteps([username : {"alice"}, room : {"lobby"}, message : Texts], MaxReq)
    \/ TypingSteps([username : {"alice"}, room : {"lobby"}, isTyping : {TRUE}], MaxReq)
    \/ PrivateSteps([from : {"alice"}, to : {"alice"}, message : Texts], MaxReq)
    \/ FetchSteps([room : {"lobby"}, pageSize : {2}, pageIndex : {0}], MaxReq)

Spec == Init /\ [][Next]_vars

\* Room traffic: joins of two rooms and sends to the lobby.
NextRoom ==
    \/ ConnectionSteps(MaxClose)
    \/ JoinSteps([username : {"alice"}, room : RoomNames], MaxReq)
    \/ SendSteps([username : {"alice"}, room : {"lobby"}, message : Texts], MaxReq)

SpecRoom == Init /\ [][NextRoom]_vars

\* Private messages to bob, who may have joined on either socket.
NextPrivate ==
    \/ ConnectionSteps(MaxClose)
    \/ JoinSteps([username : {"bob"}, room : {"lobby"}], MaxReq)
    \/ PrivateSteps([from : {"alice"}, to : {"bob"}, message : Texts], MaxReq)

SpecPrivate == Init /\ [][NextPrivate]_vars

\* Presence: joins of two usernames, and every socket may close.
NextPresence ==
    \/ ConnectionSteps(Cardinality(Conns))
    \/ JoinSteps([username : Users, room : {"lobby"}], MaxReqPresence)

SpecPresence == Init /\ [][NextPresence]_vars

\* Private messages between usernames that hold the separator; nobody joins.
NextDirect ==
    \/ \E c \in Conns : HandleConnection(c)
    \/ PrivateSteps([from : SepUsers, to : SepUsers, message : Texts], MaxReq)

SpecDirect == Init /\ [][NextDirect]_vars

\* Presence, with disconnect signals that are delivered more than once.
NextSignals ==
    \/ ConnectionSteps(Cardinality(Conns))
    \/ \E c \in Conns : HandleDisconnectAgain(c)
    \/ JoinSteps([username : {"alice"}, room : {"lobby"}], MaxReqPresence)

SpecSignals == Init /\ [][NextSignals]_vars

\* Payloads with a required field missing, next to one valid payload each.
JoinInputs == {[username |-> "alice", room |-> "lobby"],
               [username |-> Null, room |-> "lobby"],
               [username |-> "alice", room |-> Null]}
SendInputs == {[username |-> "alice", room |-> "lobby", message |-> "hi"],
               [username |-> Null, room |-> "lobby", message |-> "hi"],
               [username |-> "alice", room |-> Null, message |-> "hi"],
               [username |-> "alice", room |-> "lobby", message |-> Null]}
TypingInputs == {[username |-> "alice", room |-> "lobby", isTyping |-> TRUE],
                 [username |-> Null, room |-> "lobby", isTyping |-> TRUE],
                 [username |-> "alice", room |-> Null, isTyping |-> TRUE]}
PrivateInputs == {[from |-> "alice", to |-> "bob", message |-> "hi"],
                  [from |-> Null, to |-> "bob", message |-> "hi"],
                  [from |-> "alice", to |-> Null, message |-> "hi"],
                  [from |-> "alice", to |-> "bob", message |-> Null]}
\* pageSize 0 stands for a missing pageSize as well: both are falsy.
FetchInputs == {[room |-> "lobby", pageSize |-> 5, pageIndex |-> 0],
                [room |-> Null, pageSize |-> 5, pageIndex |-> 0],
                [room |-> "lobby", pageSize |-> 0, pageIndex |-> 0],
                [room |-> "lobby", pageSize |-> -1, pageIndex |-> 0],
                [room |-> "lobby", pageSize |-> 5, pageIndex |-> -1]}

\* Input validation: all five handlers, valid and invalid payloads.
NextInput ==
    \/ ConnectionSteps(MaxClose)
    \/ JoinSteps(JoinInputs, MaxReqInput)
    \/ SendSteps(SendInputs, MaxReqInput)
    \/ TypingSteps(TypingInputs, MaxReqInput)
    \/ PrivateSteps(PrivateInputs, MaxReqInput)
    \/ FetchSteps(FetchInputs, MaxReqInput)

SpecInput == Init /\ [][NextInput]_vars

\* The lobby holding n messages of earlier runs, oldest first.
OldLog(n) == [i \in 1..n |-> Stringify([OldMessage EXCEPT !.timestamp = i - n])]

\* As Init, with any number of earlier messages up to MaxLog in the lobby.
InitHistory ==
    /\ status = [c \in Conns |-> "new"]
    /\ dataUsername = [c \in Conns |-> Null]
    /\ dataRoom = [c \in Conns |-> Null]
    /\ rooms = [c \in Conns |-> {}]
    /\ presence = [u \in Names |-> Null]
    /\ \E n \in 0..MaxLog :
           roomLog = [r \in RoomNames |-> IF r = "lobby" THEN OldLog(n) ELSE <<>>]
    /\ pmLog = [k \in PMKeys |-> <<>>]
    /\ outbox = [c \in Conns |-> <<>>]
    /\ handlers = [h \in Reqs |-> NoHandler]
    /\ disc = [c \in Conns |-> [pc |-> "idle", username |-> Null, room |-> Null, signals |-> 0]]
    /\ nreq = 0
    /\ nfail = 0
    /\ RedisReady

\* History reads: joins, sends and page fetches on a lobby of any length.
\* The client asks for pages of 5 (loadOlder).
NextHistory ==
    \/ ConnectionSteps(MaxClose)
    \/ JoinSteps([username : {"alice"}, room : {"lobby"}], MaxReqHistory)
    \/ SendSteps([username : {"alice"}, room : {"lobby"}, message : Texts], MaxReqHistory)
    \/ FetchSteps([room : {"lobby"}, pageSize : {2, 5}, pageIndex : {0, 1, 3}], MaxReqHistory)

SpecHistory == InitHistory /\ [][NextHistory]_vars

\* Page fetches alone, on a lobby of any length that nothing is appended to.
NextPage ==
    \/ \E c \in Conns : HandleConnection(c)
    \/ FetchSteps([room : {"lobby"}, pageSize : {5}, pageIndex : 0..2], MaxReqHistory)

SpecPage == InitHistory /\ [][NextPage]_vars

\* A stored string that is not JSON, at position i of a list.
Corrupt(i) == <<"text", i>>

\* The lobby of n earlier messages with the entries at the positions K corrupt.
CorruptLog(n, K) == [i \in 1..n |-> IF i \in K THEN Corrupt(i) ELSE OldLog(n)[i]]

\* As InitHistory, with one entry of the lobby corrupt, or all of them.
InitCorrupt ==
    /\ status = [c \in Conns |-> "new"]
    /\ dataUsername = [c \in Conns |-> Null]
    /\ dataRoom = [c \in Conns |-> Null]
    /\ rooms = [c \in Conns |-> {}]
    /\ presence = [u \in Names |-> Null]
    /\ \E n \in 1..MaxLog :
           \E K \in {{i} : i \in 1..n} \cup {1..n} :
               roomLog = [r \in RoomNames |-> IF r = "lobby" THEN CorruptLog(n, K) ELSE <<>>]
    /\ pmLog = [k \in PMKeys |-> <<>>]
    /\ outbox = [c \in Conns |-> <<>>]
    /\ handlers = [h \in Reqs |-> NoHandler]
    /\ disc = [c \in Conns |-> [pc |-> "idle", username |-> Null, room |-> Null, signals |-> 0]]
    /\ nreq = 0
    /\ nfail = 0
    /\ RedisReady

\* History reads on a lobby that holds corrupt entries.
NextCorrupt ==
    \/ \E c \in Conns : HandleConnection(c)
    \/ JoinSteps([username : {"alice"}, room : {"lobby"}], MaxReqHistory)
    \/ FetchSteps([room : {"lobby"}, pageSize : {5}, pageIndex : 0..2], MaxReqHistory)

SpecCorrupt == InitCorrupt /\ [][NextCorrupt]_vars

\* ------------------------------------------------------------- fairness
\* The next step of handler h: the command it awaits returns, applied or
\* rejected, and the handler runs on to its next await or to its end.
HandlerStep(h) ==
    \/ JoinRoomSet(h)
    \/ JoinRoomSetFail(h)
    \/ JoinRoomAttach(h)
    \/ JoinRoomLLen(h)
    \/ JoinRoomLRange(h)
    \/ JoinRoomHistoryFail(h)
    \/ JoinRoomEmit(h)
    \/ SendMessageStore(h)
    \/ SendMessageStoreFail(h)
    \/ SendMessageBroadcast(h)
    \/ PrivateMessageStore(h)
    \/ PrivateMessageStoreFail(h)
    \/ PrivateMessageLookup(h)
    \/ PrivateMessageLookupFail(h)
    \/ PrivateMessageDeliver(h)
    \/ FetchOlderLLen(h)
    \/ FetchOlderLRange(h)
    \/ FetchOlderFail(h)
    \/ FetchOlderEmit(h)

\* The four request handlers, one username and one room.
NextFair ==
    \/ ConnectionSteps(MaxClose)
    \/ JoinSteps([username : {"alice"}, room : {"lobby"}], MaxReqFair)
    \/ SendSteps([username : {"alice"}, room : {"lobby"}, message : Texts], MaxReqFair)
    \/ PrivateSteps([from : {"alice"}, to : {"alice"}, message : Texts], MaxReqFair)
    \/ FetchSteps([room : {"lobby"}, pageSize : {2}, pageIndex : {0}], MaxReqFair)

\* Every awaited command returns and every handler is scheduled again.
SpecFair == Init /\ [][NextFair]_vars /\ \A h \in Reqs : WF_vars(HandlerStep(h))

\* ------------------------------------------------------ Redis connection
\* Mutant: the delay is not capped.
ReconnectStrategy_NoCap(k, retries) ==
    IF isShuttingDown[k] THEN NoRetry
    ELSE IF retries >= retryAttempts THEN NoRetry
    ELSE retries * 100

\* reconnectStrategy of the client options: the delay in ms before the next
\* attempt, or NoRetry.
ReconnectStrategy(k, retries) ==
    IF isShuttingDown[k] THEN NoRetry
    ELSE IF retries >= retryAttempts THEN NoRetry
    ELSE IF retries * 100 < 3000 THEN retries * 100 ELSE 3000

\* The client has asked its strategy with the number of failed attempts.
Reconnect(k, retries) ==
    LET retryIn == ReconnectStrategy(k, retries) IN
    redisClient' = [redisClient EXCEPT ![k] =
        [phase   |-> IF retryIn = NoRetry THEN "ended" ELSE "waiting",
         retries |-> retries,
         retryIn |-> retryIn,
         connected |-> redisClient[k].connected]]

\* An attempt to connect fails: the strategy is asked with the number of
\* attempts that failed before this one.
ConnectError(k) ==
    /\ redisClient[k].phase = "connecting"
    /\ Reconnect(k, redisClient[k].retries)
    /\ UNCHANGED <<status, dataUsername, dataRoom, rooms, presence, roomLog, pmLog,
                   outbox, handlers, disc, nreq, nfail, isShuttingDown, retryAttempts>>

\* The delay has passed: the next attempt starts.
RetryTimer(k) ==
    /\ redisClient[k].phase = "waiting"
    /\ redisClient' = [redisClient EXCEPT ![k].phase = "connecting",
                                          ![k].retries = @ + 1]
    /\ UNCHANGED <<status, dataUsername, dataRoom, rooms, presence, roomLog, pmLog,
                   outbox, handlers, disc, nreq, nfail, isShuttingDown, retryAttempts>>

\* An attempt succeeds ('connect' is logged): the count of failed attempts
\* starts again.
ConnectReady(k) ==
    /\ redisClient[k].phase = "connecting"
    /\ redisClient' = [redisClient EXCEPT ![k] =
           [phase |-> "ready", retries |-> 0, retryIn |-> 0, connected |-> TRUE]]
    /\ UNCHANGED <<status, dataUsername, dataRoom, rooms, presence, roomLog, pmLog,
                   outbox, handlers, disc, nreq, nfail, isShuttingDown, retryAttempts>>

\* The connection of a ready client is lost: the strategy is asked with 0.
SocketError(k) ==
    /\ redisClient[k].phase = "ready"
    /\ Reconnect(k, 0)
    /\ UNCHANGED <<status, dataUsername, dataRoom, rooms, presence, roomLog, pmLog,
                   outbox, handlers, disc, nreq, nfail, isShuttingDown, retryAttempts>>

\* RedisIoAdapter.close / ChatService.onModuleDestroy: the flag is set and
\* the client quits; a client that is not connected keeps its pending
\* attempt or timer.
OnModuleDestroy(k) ==
    /\ ~isShuttingDown[k]
    /\ isShuttingDown' = [isShuttingDown EXCEPT ![k] = TRUE]
    /\ redisClient' = IF redisClient[k].phase = "ready"
                      THEN [redisClient EXCEPT ![k].phase = "ended"]
                      ELSE redisClient
    /\ UNCHANGED <<status, dataUsername, dataRoom, rooms, presence, roomLog, pmLog,
                   outbox, handlers, disc, nreq, nfail, retryAttempts>>

\* The values of REDIS_RETRY_ATTEMPTS: the default, and one that lets the
\* delay reach its cap.
RetryAttemptsConfigs == {DefaultRetryAttempts, MaxRetryAttempts}

\* The process starts: no socket yet, both clients make their first attempt.
InitRedis ==
    /\ status = [c \in Conns |-> "new"]
    /\ dataUsername = [c \in Conns |-> Null]
    /\ dataRoom = [c \in Conns |-> Null]
    /\ rooms = [c \in Conns |-> {}]
    /\ presence = [u \in Names |-> Null]
    /\ roomLog = [r \in RoomNames |-> <<>>]
    /\ pmLog = [k \in PMKeys |-> <<>>]
    /\ outbox = [c \in Conns |-> <<>>]
    /\ handlers = [h \in Reqs |-> NoHandler]
    /\ disc = [c \in Conns |-> [pc |-> "idle", username |-> Null, room |-> Null, signals |-> 0]]
    /\ nreq = 0
    /\ nfail = 0
    /\ isShuttingDown = [k \in RedisClients |-> FALSE]
    /\ retryAttempts \in RetryAttemptsConfigs
    /\ redisClient = [k \in RedisClients |->
           [phase |-> "connecting", retries |-> 0, retryIn |-> 0, connected |-> FALSE]]

NextRedis ==
    \E k \in RedisClients :
        \/ ConnectError(k)
        \/ RetryTimer(k)
        \/ ConnectReady(k)
        \/ SocketError(k)
        \/ OnModuleDestroy(k)

SpecRedis == InitRedis /\ [][NextRedis]_vars

\* ------------------------------------------------------------ the client
\* The chat history of the client on socket c (App, state messages):
\* last_messages replaces it, receive_message appends to it, older_messages
\* is put in front of it.
ClientApply(prev, e) ==
    CASE e.type = "last_messages" -> e.data
      [] e.type = "receive_message" -> Append(prev, e.data)
      [] e.type = "older_messages" -> e.data \o prev
      [] OTHER -> prev

RECURSIVE ClientFold(_, _)
ClientFold(events, n) ==
    IF n = 0 THEN <<>> ELSE ClientApply(ClientFold(events, n - 1), events[n])

ClientMessages(c) == ClientFold(outbox[c], Len(outbox[c]))

\* The client's pageIndex: last_messages sets it to 0 and every click on
\* Load Older adds one.  Here the client clicks only once it has its
\* last_messages, so the index is the number of its fetches so far.
ClientPageIndex(c) ==
    Cardinality({h \in Reqs : handlers[h].kind = "fetch" /\ handlers[h].conn = c})

\* socket.on('connect'): the client sends its join_room, once per socket.
ClientJoin(c) ==
    /\ \A h \in Reqs : ~(handlers[h].kind = "join" /\ handlers[h].conn = c)
    /\ JoinRoomStart(c, [username |-> "alice", room |-> "lobby"])

\* loadOlder: fetch_older_messages { room, pageSize: 5, pageIndex: pageIndex + 1 }
ClientLoadOlder(c) ==
    /\ \E i \in DOMAIN outbox[c] : outbox[c][i].type = "last_messages"
    /\ FetchOlderStart(c, [room |-> "lobby", pageSize |-> 5,
                           pageIndex |-> ClientPageIndex(c) + 1])

\* Clients that join the lobby and load older messages; nothing is sent.
NextClient ==
    \/ \E c \in Conns : HandleConnection(c)
    \/ \E c \in Conns : ClientJoin(c)
    \/ \E h \in Reqs : JoinRoomSet(h)
    \/ \E h \in Reqs : JoinRoomSetFail(h)
    \/ \E h \in Reqs : JoinRoomAttach(h)
    \/ \E h \in Reqs : JoinRoomLLen(h)
    \/ \E h \in Reqs : JoinRoomLRange(h)
    \/ \E h \in Reqs : JoinRoomHistoryFail(h)
    \/ \E h \in Reqs : JoinRoomEmit(h)
    \/ \E c \in Conns : ClientLoadOlder(c)
    \/ \E h \in Reqs : FetchOlderLLen(h)
    \/ \E h \in Reqs : FetchOlderLRange(h)
    \/ \E h \in Reqs : FetchOlderFail(h)
    \/ \E h \in Reqs : FetchOlderEmit(h)

SpecClient == InitHistory /\ [][NextClient]_vars

\* ---------------------------------------------------- reading the state
\* The events of a type that handler h delivered to socket c.
Delivered(c, type, h) ==
    {i \in DOMAIN outbox[c] : outbox[c][i].type = type /\ outbox[c][i].by = h}

\* The positions of a list that hold the entry written by handler h.
EntriesOf(list, h) ==
    {i \in DOMAIN list : CanParse(list[i]) /\ Parse(list[i]).timestamp = h}

\* What a step appended to the outbox of socket c.
NewEvents(c) == SubSeq(outbox'[c], Len(outbox[c]) + 1, Len(outbox'[c]))

IsPrefix(s, t) == Len(s) <= Len(t) /\ SubSeq(t, 1, Len(s)) = s

SocketUnchanged ==
    /\ status' = status
    /\ dataUsername' = dataUsername
    /\ dataRoom' = dataRoom
    /\ rooms' = rooms

\* ------------------------------------------------------------------- C1
\* C1: every receive_message event that any socket has received carries a
\* ChatMessage whose serialized entry is already in the log of its room, in
\* every reachable state, also while other send_message handlers for the
\* same room are suspended between their append and their publish.
C1_DurabilityPrecedesPublish ==
    \A c \in Conns : \A i \in DOMAIN outbox[c] :
        outbox[c][i].type = "receive_message" =>
            \E j \in DOMAIN roomLog[outbox[c][i].data.room] :
                roomLog[outbox[c][i].data.room][j] = Stringify(outbox[c][i].data)

\* A socket has received a message of the lobby while the send_message
\* handler of another socket has appended to the lobby and not yet published.
C1_Witness ==
    \E c \in Conns, h \in Reqs :
        /\ \E i \in DOMAIN outbox[c] :
               /\ outbox[c][i].type = "receive_message"
               /\ outbox[c][i].data.room = "lobby"
               /\ outbox[c][i].by # h
        /\ handlers[h].pc = "send_emit"
        /\ handlers[h].data.room = "lobby"
        /\ handlers[h].conn # c

\* ------------------------------------------------------------------- C2
\* The step in which the append of handler h is rejected by the store.
C2_AppendFails(h) ==
    /\ handlers[h].pc = "send_rpush"
    /\ handlers'[h] # handlers[h]
    /\ nfail' = nfail + 1

C2_FailedAppendStep ==
    \A h \in Reqs : C2_AppendFails(h) =>
        /\ handlers'[h].pc = "done"
        /\ roomLog' = roomLog
        /\ SocketUnchanged
        /\ \A d \in Conns :
               NewEvents(d) = IF d = handlers[h].conn /\ status[d] = "open"
                              THEN <<ErrorEvent("Failed to send message", h)>>
                              ELSE <<>>

C2_NeverPublished ==
    \A h \in Reqs :
        (handlers[h].kind = "send" /\ handlers[h].outcome = "store_failed") =>
            /\ \A c \in Conns : Delivered(c, "receive_message", h) = {}
            /\ \A r \in RoomNames : EntriesOf(roomLog[r], h) = {}

\* C2: when the append of a send_message is rejected, that step leaves every
\* room log unchanged, delivers one error event to the sender (when it is
\* still connected) and nothing to any other socket, and leaves the sender's
\* socket state (connected, bound username and room, joined rooms) as it was;
\* and in no later state has any socket received a receive_message for that
\* message, nor does any log hold it.
C2_FailedAppendNotPublished == [][C2_FailedAppendStep]_vars /\ []C2_NeverPublished

\* A joined sender whose append was rejected holds the error event, while
\* another socket in the same room is connected.
C2_Witness ==
    \E h \in Reqs, d \in Conns :
        LET c == handlers[h].conn IN
        /\ handlers[h].kind = "send"
        /\ handlers[h].outcome = "store_failed"
        /\ status[c] = "open"
        /\ Truthy(dataUsername[c])
        /\ Delivered(c, "error", h) # {}
        /\ d # c
        /\ status[d] = "open"
        /\ rooms[d] \cap rooms[c] # {}

\* ------------------------------------------------------------------- C3
C3_BroadcastStep ==
    \A h \in Reqs :
        (handlers[h].pc = "send_emit" /\ handlers'[h].pc = "done") =>
            \A c \in Conns :
                NewEvents(c) =
                    IF status[c] = "open" /\ handlers[h].data.room \in rooms[c]
                    THEN <<Event("receive_message", ChatMessage(handlers[h].data, h), h)>>
                    ELSE <<>>

C3_AtMostOnce ==
    \A h \in Reqs, c \in Conns : Cardinality(Delivered(c, "receive_message", h)) <= 1

\* C3: the publish of a stored message delivers its receive_message to every
\* connected socket that has joined the room at that moment, the sender
\* included when it has joined the room, and to no socket that has not; and
\* no socket ever holds two receive_message events of one send_message.
C3_RoomFanOut == [][C3_BroadcastStep]_vars /\ []C3_AtMostOnce

\* A sender in the lobby has received its own message once, while a connected
\* socket that joined the other room has received nothing of it.
C3_Witness ==
    \E h \in Reqs, d \in Conns :
        LET c == handlers[h].conn IN
        /\ handlers[h].kind = "send"
        /\ handlers[h].outcome = "ok"
        /\ Cardinality(Delivered(c, "receive_message", h)) = 1
        /\ rooms[c] = {"lobby"}
        /\ d # c
        /\ status[d] = "open"
        /\ rooms[d] = {"dev"}
        /\ Delivered(d, "receive_message", h) = {}

\* ------------------------------------------------------------------- C4
C4_AppendOnlyStep == \A r \in RoomNames : IsPrefix(roomLog[r], roomLog'[r])

\* The (room, position) pairs that hold the entry written by handler h.
C4_Stored(h) ==
    UNION {{<<r, i>> : i \in EntriesOf(roomLog[r], h)} : r \in RoomNames}

C4_ExactlyOnce ==
    \A h \in Reqs :
        Cardinality(C4_Stored(h)) =
            IF handlers[h].kind = "send" /\
               (handlers[h].pc = "send_emit" \/ handlers[h].outcome = "ok")
            THEN 1 ELSE 0

\* C4: every step of every handler (join, send, typing, private message,
\* fetch, disconnect) leaves each room log a prefix of what it becomes, and
\* the message of each send_message whose append succeeded is in the logs
\* exactly once, the message of any other request not at all.
C4_RoomLogAppendOnly == [][C4_AppendOnlyStep]_vars /\ []C4_ExactlyOnce

\* Two send_message handlers are suspended after their appends to the lobby,
\* and a request of another kind has been handled before.
C4_Witness ==
    /\ Len(roomLog["lobby"]) = 3
    /\ \E h1, h2, h3 \in Reqs :
           /\ h1 # h2
           /\ handlers[h1].pc = "send_emit"
           /\ handlers[h2].pc = "send_emit"
           /\ handlers[h3].pc = "done"
           /\ handlers[h3].kind \in {"join", "typing", "pm", "fetch"}

\* ------------------------------------------------------------------- C5
\* C5: the unbind of a disconnecting socket does not remove the presence
\* entry of its username when that entry names another socket (a newer join
\* of the same username): the lookup of the username still returns that
\* socket after the unbind.
C5_ConditionalUnbind ==
    [][\A c \in Conns :
           (disc[c].pc = "disc_del" /\ disc'[c].pc = "disc_emit") =>
               (presence[disc[c].username] \notin {Null, c} =>
                    presence'[disc[c].username] = presence[disc[c].username])]_vars

\* ------------------------------------------------------------------- C6
C6_BindStep ==
    \A h \in Reqs :
        (handlers[h].pc = "join_set" /\ handlers'[h].pc = "join_attach") =>
            /\ presence'[handlers[h].data.username] = handlers[h].conn
            /\ \A v \in Names \ {handlers[h].data.username} : presence'[v] = presence[v]

C6_UnbindStep ==
    \A c \in Conns :
        (disc[c].pc = "disc_del" /\ disc'[c].pc # "disc_del" /\ nfail' = nfail) =>
            /\ presence'[disc[c].username] = Null
            /\ \A v \in Names \ {disc[c].username} : presence'[v] = presence[v]
            /\ disc'[c].pc = "disc_emit"

\* The unbind of a username is never refused by the store for lack of an entry.
C6_UnbindTotal ==
    \A c \in Conns : disc[c].pc = "disc_del" => ENABLED DisconnectUnbind(c)

\* C6: a bind makes the lookup of its username return the bound socket,
\* whatever was bound before, and touches no other username; an unbind makes
\* the lookup return not-found and touches no other username; the unbind of a
\* username that has no entry changes nothing and raises no error (the
\* disconnect handler goes on to its announcement).
C6_PresenceLastWriterWins == [][C6_BindStep /\ C6_UnbindStep]_vars /\ []C6_UnbindTotal

\* Both sockets were bound to alice, both have closed and unbound without a
\* rejected command: the second unbind found no entry.
C6_Witness ==
    /\ \A c \in Conns : dataUsername[c] = "alice" /\ disc[c].pc = "done"
    /\ nfail = 0
    /\ presence["alice"] = Null

\* ------------------------------------------------------------------- C7
\* C7: a join_room whose username is bound to another connected socket is
\* refused: the binding is left as it was, the handler ends there and the
\* requester receives an error event.
C7_DuplicateUsernameRejected ==
    [][\A h \in Reqs :
           (/\ handlers[h].pc = "join_set"
            /\ handlers'[h].pc # "join_set"
            /\ presence[handlers[h].data.username] \notin {Null, handlers[h].conn}
            /\ status[presence[handlers[h].data.username]] = "open")
           => /\ presence'[handlers[h].data.username] = presence[handlers[h].data.username]
              /\ handlers'[h].pc = "done"
              /\ status[handlers[h].conn] = "open" =>
                     \E i \in DOMAIN NewEvents(handlers[h].conn) :
                         NewEvents(handlers[h].conn)[i].type = "error"]_vars

\* ------------------------------------------------------------------ C8
Types(events) == [i \in DOMAIN events |-> events[i].type]

\* The lookup of handler h returns what the presence directory holds then.
LookupReadsPresence(h) ==
    (handlers[h].pc = "pm_get" /\ handlers'[h].pc = "pm_emit") =>
        handlers'[h].sock = presence[handlers[h].data.to]

C8_StoredBeforeDelivery ==
    \A h \in Reqs :
        /\ handlers[h].pc \in {"pm_get", "pm_emit"} =>
               Cardinality(EntriesOf(pmLog[PMKey(handlers[h].data.from, handlers[h].data.to)], h)) = 1
        /\ (\E c \in Conns : \E i \in DOMAIN outbox[c] :
                /\ outbox[c][i].by = h
                /\ outbox[c][i].type \in {"receive_private_message", "private_message_sent"})
           => \E k \in PMKeys : EntriesOf(pmLog[k], h) # {}

C8_OfflineStep ==
    \A h \in Reqs :
        (handlers[h].pc = "pm_emit" /\ handlers[h].sock = Null /\ handlers'[h].pc = "done") =>
            /\ pmLog' = pmLog
            /\ EntriesOf(pmLog[PMKey(handlers[h].data.from, handlers[h].data.to)], h) # {}
            /\ \A d \in Conns :
                   NewEvents(d) = IF d = handlers[h].conn /\ status[d] = "open"
                                  THEN <<ErrorEvent("User is offline", h)>>
                                  ELSE <<>>

C8_OfflineNeverDelivered ==
    \A h \in Reqs :
        (handlers[h].kind = "pm" /\ handlers[h].outcome = "offline") =>
            /\ \A c \in Conns : Delivered(c, "receive_private_message", h) = {}
            /\ \E k \in PMKeys : EntriesOf(pmLog[k], h) # {}

\* C8: a private message is in the list of its (from, to) key from before the
\* recipient is looked up until after the delivery step, and every delivered
\* receive_private_message or private_message_sent has its entry stored; when
\* the lookup finds no entry for the recipient, the delivery step tells the
\* sender 'User is offline', delivers nothing to any other socket, leaves the
\* lists unchanged, and no receive_private_message of that request is ever
\* delivered.
C8_PrivateStoredThenOffline ==
    /\ [][\A h \in Reqs : LookupReadsPresence(h)]_vars
    /\ [][C8_OfflineStep]_vars
    /\ [](C8_StoredBeforeDelivery /\ C8_OfflineNeverDelivered)

\* alice's message to bob, who has no presence entry: the connected sender
\* holds the offline error, the (alice, bob) list holds the message, and the
\* other connected socket has received no error and no private message.
C8_Witness ==
    \E h \in Reqs, d \in Conns :
        LET c == handlers[h].conn IN
        /\ handlers[h].kind = "pm"
        /\ handlers[h].outcome = "offline"
        /\ status[c] = "open"
        /\ Delivered(c, "error", h) # {}
        /\ EntriesOf(pmLog[PMKey("alice", "bob")], h) # {}
        /\ presence["bob"] = Null
        /\ d # c
        /\ status[d] = "open"
        /\ \A e \in Reqs : Delivered(d, "error", e) = {}
                          /\ Delivered(d, "receive_private_message", e) = {}

\* ------------------------------------------------------------------- C9
\* C9 as stated: the sender of every stored private message has received
\* private_message_sent once its handler has returned, whether the recipient
\* was found or not (for a sender that is still connected).
C9_AlwaysConfirmed ==
    \A h \in Reqs :
        (/\ handlers[h].kind = "pm"
         /\ handlers[h].outcome \in {"ok", "offline"}
         /\ status[handlers[h].conn] = "open")
        => Delivered(handlers[h].conn, "private_message_sent", h) # {}

C9_DeliverStep ==
    \A h \in Reqs :
        (handlers[h].pc = "pm_emit" /\ handlers'[h].pc = "done") =>
            LET c == handlers[h].conn
                sent == {i \in DOMAIN NewEvents(c) :
                            NewEvents(c)[i].type = "private_message_sent"}
                told == {i \in DOMAIN NewEvents(c) :
                            NewEvents(c)[i] = ErrorEvent("User is offline", h)}
            IN  IF handlers[h].sock # Null
                THEN /\ Cardinality(sent) = IF status[c] = "open" THEN 1 ELSE 0
                     /\ told = {}
                     /\ \A i \in sent :
                            /\ NewEvents(c)[i].data.to = handlers[h].data.to
                            /\ NewEvents(c)[i].data.message = handlers[h].data.message
                ELSE /\ sent = {}
                     /\ Cardinality(told) = IF status[c] = "open" THEN 1 ELSE 0

C9_ConfirmedOnlyToSender ==
    \A h \in Reqs, c \in Conns :
        /\ Cardinality(Delivered(c, "private_message_sent", h)) <= 1
        /\ Delivered(c, "private_message_sent", h) # {} =>
               /\ handlers[h].kind = "pm"
               /\ handlers[h].conn = c
               /\ handlers[h].outcome = "ok"

\* C9 (amended): the delivery step of a stored private message confirms it to
\* a connected sender with exactly one private_message_sent when the lookup
\* found a socket bound to the recipient; when the lookup found none it sends
\* the error 'User is offline' instead and no private_message_sent; a
\* private_message_sent is only ever held by the sender of a request that
\* found its recipient bound.
C9_ConfirmedWhenBound == [][C9_DeliverStep]_vars /\ []C9_ConfirmedOnlyToSender

\* One private message found bob bound and was confirmed, another of the same
\* sender found no entry and was answered with the offline error.
C9_Witness ==
    \E h1, h2 \in Reqs :
        LET c == handlers[h1].conn IN
        /\ handlers[h1].kind = "pm" /\ handlers[h1].outcome = "ok"
        /\ handlers[h2].kind = "pm" /\ handlers[h2].outcome = "offline"
        /\ handlers[h2].conn = c
        /\ status[c] = "open"
        /\ Delivered(c, "private_message_sent", h1) # {}
        /\ Delivered(c, "private_message_sent", h2) = {}
        /\ Delivered(c, "error", h2) # {}

\* ------------------------------------------------------------------ C10
C10_OnlineDeliverStep ==
    \A h \in Reqs :
        (handlers[h].pc = "pm_emit" /\ handlers[h].sock # Null /\ handlers'[h].pc = "done") =>
            \A d \in Conns :
                /\ Types(NewEvents(d)) =
                       (IF d = handlers[h].sock /\ status[d] = "open"
                        THEN <<"receive_private_message">> ELSE <<>>)
                       \o (IF d = handlers[h].conn /\ status[d] = "open"
                           THEN <<"private_message_sent">> ELSE <<>>)
                /\ \A i \in DOMAIN NewEvents(d) :
                       NewEvents(d)[i].type = "receive_private_message" =>
                           /\ NewEvents(d)[i].data.from = handlers[h].data.from
                           /\ NewEvents(d)[i].data.message = handlers[h].data.message

\* C10: the lookup returns the socket the presence directory binds to the
\* recipient's username at that moment; the delivery step of a request whose
\* lookup found a socket delivers receive_private_message to that socket
\* alone (when it is connected), never to another socket or to the members
\* of a room, and private_message_sent to the sender.
C10_PrivateToBoundSocketOnly ==
    /\ [][\A h \in Reqs : LookupReadsPresence(h)]_vars
    /\ [][C10_OnlineDeliverStep]_vars

\* bob's socket, in the lobby, holds the private message; the sender, another
\* socket in the same lobby, holds the confirmation and not the message.
C10_Witness ==
    \E h \in Reqs, r \in Conns :
        LET c == handlers[h].conn IN
        /\ handlers[h].kind = "pm" /\ handlers[h].outcome = "ok"
        /\ r # c
        /\ presence["bob"] = r
        /\ "lobby" \in rooms[r] /\ "lobby" \in rooms[c]
        /\ Delivered(r, "receive_private_message", h) # {}
        /\ Delivered(c, "receive_private_message", h) = {}
        /\ Delivered(c, "private_message_sent", h) # {}

\* ------------------------------------------------------------------ C11
\* C11: for all usernames a # b, no message sent from a to b is held by the
\* list that is read with the key of the conversation (b, a).
C11_DirectionalKey ==
    \A a \in Names, b \in Names :
        a # b =>
            \A i \in DOMAIN pmLog[PMKey(b, a)] :
                LET m == Parse(pmLog[PMKey(b, a)][i])
                IN  ~(m.from = a /\ m.to = b)

\* ------------------------------------------------------------------ C12
\* The join_room handlers that failed by validation or by the presence bind.
C12_Failed(h) ==
    /\ handlers[h].kind = "join"
    /\ handlers[h].outcome \in {"invalid", "bind_failed"}

\* The step in which join h fails: the requester, when still connected, gets
\* one error event and nobody else gets anything; socket state, presence and
\* the logs stay as they were.
C12_FailStep ==
    \A h \in Reqs :
        (~C12_Failed(h) /\ C12_Failed(h)') =>
            LET c == handlers'[h].conn IN
            /\ SocketUnchanged
            /\ presence' = presence /\ roomLog' = roomLog /\ pmLog' = pmLog
            /\ \A d \in Conns :
                   NewEvents(d) =
                       IF d = c /\ Open(c)
                       THEN <<ErrorEvent(IF handlers'[h].outcome = "invalid"
                                         THEN "Username and room are required"
                                         ELSE "Failed to join room", h)>>
                       ELSE <<>>

\* A failed join never delivers last_messages or user_joined.
C12_NothingDelivered ==
    \A h \in Reqs : C12_Failed(h) =>
        \A c \in Conns : /\ Delivered(c, "last_messages", h) = {}
                         /\ Delivered(c, "user_joined", h) = {}

\* A connection has a username, a room or a subscription only through a
\* join of its own that got past the presence bind.
C12_BoundOnlyByJoin ==
    \A c \in Conns :
        (Truthy(dataUsername[c]) \/ Truthy(dataRoom[c]) \/ rooms[c] # {}) =>
            \E h \in Reqs :
                /\ handlers[h].kind = "join" /\ handlers[h].conn = c
                /\ \/ handlers[h].pc \in {"join_llen", "join_lrange", "join_emit",
                                          "join_emit_nohistory"}
                   \/ handlers[h].outcome \in {"ok", "no_history"}

\* C12: a join that fails by validation or by the presence bind sends an
\* error event to the requester and leaves the connection as it was: no
\* username or room is bound, no subscription, no last_messages, no
\* user_joined.
C12_FailedJoinLeavesConnected ==
    /\ [][C12_FailStep]_vars
    /\ [](C12_NothingDelivered /\ C12_BoundOnlyByJoin)

\* One join failed by validation and one by the presence bind, on a
\* connected socket that holds both error events and is still not joined.
C12_Witness ==
    \E c \in Conns, h \in Reqs, g \in Reqs :
        /\ handlers[h] = Done("join", c, "invalid")
        /\ handlers[g] = Done("join", c, "bind_failed")
        /\ Delivered(c, "error", h) # {} /\ Delivered(c, "error", g) # {}
        /\ Open(c) /\ dataUsername[c] = Null /\ rooms[c] = {}

\* ------------------------------------------------------------------ C13
\* The steps of join h up to its subscription: the SET binds the username to
\* the requester's socket, and the continuation sets client.data and
\* subscribes the socket to the room.
C13_BindAndSubscribeStep ==
    \A h \in Reqs :
        LET c == handlers[h].conn
            d == handlers[h].data
        IN  /\ (handlers[h].pc = "join_set" /\ handlers'[h].pc = "join_attach")
                   => presence'[d.username] = c
            /\ (handlers[h].pc = "join_attach" /\ handlers'[h].pc = "join_llen")
                   => /\ dataUsername'[c] = d.username
                      /\ dataRoom'[c] = d.room
                      /\ d.room \in rooms'[c]

\* The last step of a join that read the history: the requester gets
\* last_messages, at most 10 entries, all of them entries of the room's log,
\* and exactly the other connected subscribers of the room get user_joined.
C13_EmitStep ==
    \A h \in Reqs :
        (handlers[h].pc = "join_emit" /\ handlers'[h].pc = "done") =>
            LET c == handlers[h].conn
                d == handlers[h].data
            IN  \A t \in Conns :
                    IF t = c
                    THEN Open(c) =>
                            /\ Len(NewEvents(c)) = 1
                            /\ NewEvents(c)[1].type = "last_messages"
                            /\ Len(NewEvents(c)[1].data) <= TailCount
                            /\ \A i \in DOMAIN NewEvents(c)[1].data :
                                   \E j \in DOMAIN roomLog[d.room] :
                                       roomLog[d.room][j] = Stringify(NewEvents(c)[1].data[i])
                    ELSE NewEvents(t) =
                            IF Open(t) /\ d.room \in rooms[t]
                            THEN <<Event("user_joined",
                                         [username |-> d.username, room |-> d.room], h)>>
                            ELSE <<>>

\* last_messages of a join reaches the requester only, user_joined of a join
\* never reaches the requester.
C13_RequesterOnly ==
    \A h \in Reqs : handlers[h].kind = "join" =>
        /\ Delivered(handlers[h].conn, "user_joined", h) = {}
        /\ \A t \in Conns \ {handlers[h].conn} : Delivered(t, "last_messages", h) = {}

\* C13: a successful join binds the username to the requester's socket in
\* the presence directory, subscribes the socket to the room, delivers
\* last_messages (at most 10 entries of the room's log) to the requester
\* only, and announces user_joined to every other connection in the room,
\* never to the requester.
C13_JoinBindsDeliversAnnounces ==
    /\ [][C13_BindAndSubscribeStep /\ C13_EmitStep]_vars
    /\ []C13_RequesterOnly

\* A join of a lobby with more than 10 messages has ended: the requester
\* holds a last_messages of 10 entries, and the socket that joined before
\* holds the user_joined of this join.
C13_Witness ==
    \E h \in Reqs, t \in Conns :
        LET c == handlers[h].conn IN
        /\ handlers[h] = Done("join", c, "ok")
        /\ t # c
        /\ Delivered(t, "user_joined", h) # {}
        /\ \E i \in Delivered(c, "last_messages", h) : Len(outbox[c][i].data) = TailCount
        /\ Len(roomLog["lobby"]) > TailCount

\* ------------------------------------------------------------------ C14
\* The socket closes: it is out of every room at once and nothing is
\* announced or unbound yet; a socket without a bound username is done there.
C14_CloseStep ==
    \A c \in Conns :
        (Open(c) /\ status'[c] = "closed") =>
            /\ rooms'[c] = {}
            /\ presence' = presence /\ outbox' = outbox
            /\ disc'[c].pc = IF Truthy(dataUsername[c]) THEN "disc_del" ELSE "done"
            /\ disc'[c].username = dataUsername[c] /\ disc'[c].room = dataRoom[c]

\* The DEL of the bound username is applied, then user_left goes to exactly
\* the connected sockets that are subscribed to the bound room.
C14_UnbindAnnounceStep ==
    \A c \in Conns :
        /\ (disc[c].pc = "disc_del" /\ disc'[c].pc = "disc_emit") =>
               presence'[disc[c].username] = Null /\ outbox' = outbox
        /\ (disc[c].pc = "disc_emit" /\ disc'[c].pc = "done") =>
               /\ presence' = presence
               /\ \A t \in Conns :
                      NewEvents(t) =
                          IF t # c /\ Open(t) /\ disc[c].room \in rooms[t]
                          THEN <<Event("user_left", [username |-> disc[c].username,
                                                     room |-> disc[c].room], 0)>>
                          ELSE <<>>

\* Every user_left a socket holds names the username and room of a closed
\* socket that was bound to them, once per such socket at most.
C14_AnnouncedOnlyForBound ==
    \A t \in Conns :
        \A u \in Names \cup {Null}, r \in RoomNames \cup {Null} :
            Cardinality({i \in DOMAIN outbox[t] :
                             /\ outbox[t][i].type = "user_left"
                             /\ outbox[t][i].data = [username |-> u, room |-> r]})
              <= Cardinality({c \in Conns \ {t} :
                                  /\ disc[c].pc = "done" /\ Truthy(u) /\ Truthy(r)
                                  /\ disc[c].username = u /\ disc[c].room = r})

\* C14: the disconnect of a connection with a bound username and room takes
\* it out of the room's subscribers, unbinds the presence entry of its
\* username (when the store applies the DEL) and then announces user_left to
\* exactly the other connections in that room; the disconnect of a connection
\* that never joined announces nothing and changes no presence entry.
C14_DisconnectUnbindsAndAnnounces ==
    /\ [][C14_CloseStep /\ C14_UnbindAnnounceStep]_vars
    /\ []C14_AnnouncedOnlyForBound

\* A socket that joined the lobby has closed: its presence entry is gone, it
\* is in no room, and the other socket, still in the lobby, holds its
\* user_left.
C14_Witness ==
    \E c \in Conns, t \in Conns :
        /\ disc[c] = [pc |-> "done", username |-> "alice", room |-> "lobby", signals |-> 1]
        /\ rooms[c] = {} /\ presence["alice"] = Null
        /\ t # c /\ Open(t) /\ "lobby" \in rooms[t]
        /\ \E i \in DOMAIN outbox[t] :
               outbox[t][i] = Event("user_left", [username |-> "alice", room |-> "lobby"], 0)

\* ------------------------------------------------------------------ C15
\* C15: the handling of a second disconnect signal for a connection
\* announces nothing and leaves presence and the logs as the first left them.
C15_DisconnectIdempotent ==
    [][\A c \in Conns :
           (disc[c].signals >= 2 /\ disc'[c] # disc[c]) =>
               /\ outbox' = outbox
               /\ presence' = presence
               /\ roomLog' = roomLog /\ pmLog' = pmLog]_vars

\* ------------------------------------------------------------------ C16
\* C16: the step in which the handler of an inbound event (join_room,
\* send_message, typing, send_private_message, fetch_older_messages) finds a
\* required field missing or empty delivers one error event to the requester
\* and nothing to anybody else, and leaves the socket state, the presence
\* entries and the logs as they were.
C16_ValidationFailureReported ==
    [][\A h \in Reqs :
           (handlers[h].pc = "idle" /\ handlers'[h].outcome = "invalid") =>
               LET c == handlers'[h].conn IN
               /\ \A t \in Conns :
                      IF t = c
                      THEN /\ Len(NewEvents(t)) = 1
                           /\ NewEvents(t)[1].type = "error"
                           /\ NewEvents(t)[1].by = h
                      ELSE NewEvents(t) = <<>>
               /\ SocketUnchanged
               /\ presence' = presence /\ roomLog' = roomLog /\ pmLog' = pmLog]_vars

\* ------------------------------------------------------------------ C17
\* For every room log, getLastMessages returns its last min(10, length)
\* entries, oldest first: the whole log when it is shorter than 10, the empty
\* sequence when it is empty.
C17_LastOfLog ==
    \A r \in RoomNames :
        LET n == Len(roomLog[r])
            k == IF n < TailCount THEN n ELSE TailCount
            res == GetLastMessages(roomLog[r])
        IN  /\ Len(res) = k
            /\ \A i \in 1..k : Stringify(res[i]) = roomLog[r][n - k + i]

\* What the join handler delivers as last_messages is getLastMessages of the
\* log as LLEN found it, also when messages were appended since; no error
\* event comes with it.
C17_HandlerStep ==
    \A h \in Reqs :
        (handlers[h].pc = "join_emit" /\ handlers'[h].pc = "done" /\ Open(handlers[h].conn)) =>
            LET c == handlers[h].conn
                seen == SubSeq(roomLog[handlers[h].data.room], 1, handlers[h].len)
            IN  NewEvents(c) = <<Event("last_messages", GetLastMessages(seen), h)>>

\* C17: the tail of a room's log is its most recent min(10, length) entries
\* in chronological order; a log of fewer than 10 entries is returned whole
\* and an empty log gives an empty sequence, not an error.
C17_TailIsLastTen == []C17_LastOfLog /\ [][C17_HandlerStep]_vars

\* A join read the length of a lobby of 12 messages and then its last 10,
\* oldest first, while a send appended a 13th message in between.
C17_Witness ==
    \E h \in Reqs :
        /\ handlers[h].pc = "join_emit"
        /\ handlers[h].len = MaxLog
        /\ Len(roomLog["lobby"]) = MaxLog + 1
        /\ Len(handlers[h].items) = TailCount
        /\ handlers[h].items = SubSeq(roomLog["lobby"], MaxLog - TailCount + 1, MaxLog)

\* ------------------------------------------------------------------ C18
\* For every room log, page size and page index: a page that starts beyond
\* the oldest entry is empty.
C18_BeyondStartIsEmpty ==
    \A r \in RoomNames, pageSize \in 1..MaxPageSize, pageIndex \in 0..MaxPageIndex :
        pageIndex * pageSize >= Len(roomLog[r]) =>
            GetMessagesPage(roomLog[r], pageSize, pageIndex) = <<>>

\* A fetch whose LLEN found the page beyond the start goes on without the
\* range read, so no command of it can be rejected any more, and its last
\* step delivers older_messages with an empty list to the requester only.
C18_HandlerStep ==
    \A h \in Reqs :
        LET d == handlers[h].data
            c == handlers[h].conn
        IN  /\ (handlers[h].pc = "fetch_llen" /\ handlers'[h].pc # "fetch_llen"
                /\ nfail' = nfail
                /\ d.pageIndex * d.pageSize >= Len(roomLog[d.room]))
                   => handlers'[h].pc = "fetch_emit" /\ handlers'[h].items = <<>>
            /\ (handlers[h].pc = "fetch_emit" /\ handlers'[h].pc = "done"
                /\ d.pageIndex * d.pageSize >= handlers[h].len)
                   => \A t \in Conns :
                          NewEvents(t) = IF t = c /\ Open(c)
                                         THEN <<Event("older_messages", <<>>, h)>>
                                         ELSE <<>>

\* C18: for pageSize > 0 and pageIndex >= 0 with pageIndex * pageSize at or
\* beyond the length of the room's log, the page is the empty sequence and
\* the requester receives older_messages with an empty list, not an error.
C18_PageBeyondStart == []C18_BeyondStartIsEmpty /\ [][C18_HandlerStep]_vars

\* A fetch on the lobby of 12 messages, to which nothing was sent, has ended
\* with an empty older_messages for its connected requester.
C18_Witness ==
    \E h \in Reqs :
        LET c == handlers[h].conn IN
        /\ handlers[h] = Done("fetch", c, "ok")
        /\ Open(c)
        /\ \E i \in Delivered(c, "older_messages", h) : outbox[c][i].data = <<>>
        /\ Delivered(c, "error", h) = {}
        /\ Len(roomLog["lobby"]) = MaxLog
        /\ \A g \in Reqs : handlers[g].kind # "send"

\* ------------------------------------------------------------------ C19
\* The entries of a sequence, as a set.
C19_Range(seq) == {seq[i] : i \in DOMAIN seq}

RECURSIVE C19_Concat(_, _, _)
\* The pages of a list from index m down to index 0, one after the other.
C19_Concat(list, pageSize, m) ==
    IF m < 0 THEN <<>>
    ELSE GetMessagesPage(list, pageSize, m) \o C19_Concat(list, pageSize, m - 1)

\* For every room log and page size: the pages of two different indexes
\* share no entry, each page is a run of neighbours of the log in the order
\* of the log, and when the page size divides the length of the log the
\* pages from the highest non-empty index down to 0 make up the whole log.
C19_Windows ==
    \A r \in RoomNames, pageSize \in 1..MaxPageSize :
        LET log == roomLog[r]
            n == Len(log)
            P(i) == GetMessagesPage(log, pageSize, i)
        IN  /\ \A i \in 0..MaxPageIndex, j \in 0..MaxPageIndex :
                   i < j => C19_Range(P(i)) \cap C19_Range(P(j)) = {}
            /\ \A i \in 0..MaxPageIndex :
                   \E off \in 0..n :
                       /\ off + Len(P(i)) <= n
                       /\ \A k \in DOMAIN P(i) : Stringify(P(i)[k]) = log[off + k]
            /\ (n > 0 /\ n % pageSize = 0) =>
                   /\ P(n \div pageSize - 1) # <<>>
                   /\ P(n \div pageSize) = <<>>
                   /\ C19_Concat(log, pageSize, n \div pageSize - 1) = ParseAll(log)

\* What the fetch handler delivers as older_messages is the page of the log
\* as LLEN found it.
C19_HandlerStep ==
    \A h \in Reqs :
        (handlers[h].pc = "fetch_emit" /\ handlers'[h].pc = "done" /\ Open(handlers[h].conn)) =>
            LET d == handlers[h].data
                seen == SubSeq(roomLog[d.room], 1, handlers[h].len)
            IN  NewEvents(handlers[h].conn) =
                    <<Event("older_messages", GetMessagesPage(seen, d.pageSize, d.pageIndex), h)>>

\* C19: on an unchanged log the page windows of consecutive page indexes
\* are pairwise disjoint, each in chronological order, and from the highest
\* non-empty index down to index 0 they reconstruct the full log when the
\* page size divides its length.
C19_PagesPartitionLog == []C19_Windows /\ [][C19_HandlerStep]_vars

\* Two fetches on the lobby of 10 messages have
\* delivered its pages of 5 with index 0 and index 1: the last five and the
\* first five.
C19_Witness ==
    \E h \in Reqs, g \in Reqs :
        LET c == handlers[h].conn
            t == handlers[g].conn
            log == ParseAll(roomLog["lobby"])
        IN  /\ handlers[h].kind = "fetch" /\ handlers[g].kind = "fetch"
            /\ Len(log) = 10
            /\ \E i \in Delivered(c, "older_messages", h) :
                   outbox[c][i].data = SubSeq(log, 6, 10)
            /\ \E i \in Delivered(t, "older_messages", g) :
                   outbox[t][i].data = SubSeq(log, 1, 5)

\* ------------------------------------------------------------------ C20
\* The fetch handlers that were refused for their arguments.
C20_Refused(h) ==
    /\ handlers[h].kind = "fetch"
    /\ handlers[h].outcome \in {"invalid", "page_invalid"}

\* A fetch handler that goes on to read the log has a room, a positive page
\* size and a page index that is not negative.
C20_ReadsOnlyValid ==
    \A h \in Reqs :
        (handlers[h].kind = "fetch" /\ handlers[h].pc \notin {"idle", "done"}) =>
            /\ Truthy(handlers[h].data.room)
            /\ handlers[h].data.pageSize > 0
            /\ handlers[h].data.pageIndex >= 0

\* A refused fetch ends in the step in which the event arrives, before any
\* command is sent to the store: the requester gets one error event, nobody
\* else gets anything, and the logs stay as they were.
C20_RefuseStep ==
    \A h \in Reqs :
        (~C20_Refused(h) /\ C20_Refused(h)') =>
            LET c == handlers'[h].conn IN
            /\ handlers[h].pc = "idle"
            /\ roomLog' = roomLog /\ pmLog' = pmLog /\ presence' = presence
            /\ \A t \in Conns :
                   IF t = c
                   THEN /\ Len(NewEvents(t)) = 1
                        /\ NewEvents(t)[1].type = "error"
                        /\ NewEvents(t)[1].by = h
                   ELSE NewEvents(t) = <<>>

\* A refused fetch never delivers older_messages.
C20_NoPage ==
    \A h \in Reqs : C20_Refused(h) =>
        \A t \in Conns : Delivered(t, "older_messages", h) = {}

\* C20: a fetch_older_messages with pageSize <= 0 or pageIndex < 0 is
\* refused as invalid input: the requester receives an error event, no
\* older_messages is delivered, and the log is neither read nor changed.
C20_InvalidPageRefused ==
    /\ [](C20_ReadsOnlyValid /\ C20_NoPage)
    /\ [][C20_RefuseStep]_vars

\* Two fetches were refused by getMessagesPage (a negative page size or page
\* index): their requesters hold the error events and no older_messages.
C20_Witness ==
    \E h \in Reqs, g \in Reqs :
        /\ h # g
        /\ handlers[h].kind = "fetch" /\ handlers[h].outcome = "page_invalid"
        /\ handlers[g].kind = "fetch" /\ handlers[g].outcome = "page_invalid"
        /\ \E i \in Delivered(handlers[h].conn, "error", h) :
               outbox[handlers[h].conn][i].data.message = "Failed to fetch messages"
        /\ Delivered(handlers[g].conn, "error", g) # {}
        /\ \A t \in Conns : \A i \in DOMAIN outbox[t] : outbox[t][i].type # "older_messages"

\* ------------------------------------------------------------------ C21
\* C21: the chat history of every client is a run of neighbouring entries of
\* the room's log in the order of the log, hence free of duplicates, also
\* after pages of older messages were put in front of it.
C21_HistoryIsRunOfLog ==
    \A c \in Conns :
        LET m == ClientMessages(c)
            log == ParseAll(roomLog["lobby"])
        IN  \E off \in 0..Len(log) :
                /\ off + Len(m) <= Len(log)
                /\ \A k \in DOMAIN m : m[k] = log[off + k]

\* ------------------------------------------------------------------ C22
\* Every entry of a room log has a sender, a room and a body, every entry of
\* a private conversation log a from, a to and a body, none of them empty.
C22_EntriesComplete ==
    /\ \A r \in RoomNames : \A i \in DOMAIN roomLog[r] :
           LET m == Parse(roomLog[r][i])
           IN  Truthy(m.sender) /\ Truthy(m.room) /\ Truthy(m.message)
    /\ \A k \in PMKeys : \A i \in DOMAIN pmLog[k] :
           LET m == Parse(pmLog[k][i])
           IN  Truthy(m.from) /\ Truthy(m.to) /\ Truthy(m.message)

\* A send that goes on to the store has all three fields.
C22_StoresOnlyComplete ==
    \A h \in Reqs :
        /\ handlers[h].pc = "send_rpush" =>
               LET d == handlers[h].data
               IN  Truthy(d.username) /\ Truthy(d.room) /\ Truthy(d.message)
        /\ handlers[h].pc = "pm_rpush" =>
               LET d == handlers[h].data
               IN  Truthy(d.from) /\ Truthy(d.to) /\ Truthy(d.message)

\* The step in which a send is refused for an empty field appends nothing.
C22_RefusedStep ==
    \A h \in Reqs :
        (handlers[h].pc = "idle" /\ handlers'[h].kind \in {"send", "pm"}
         /\ handlers'[h].outcome = "invalid")
            => roomLog' = roomLog /\ pmLog' = pmLog

\* C22: every entry ever appended to a room log has a non-empty sender, room
\* and body, every entry appended to a private conversation log a non-empty
\* from, to and body; a send with one of them empty appends nothing.
C22_OnlyCompleteEntries ==
    /\ [](C22_EntriesComplete /\ C22_StoresOnlyComplete)
    /\ [][C22_RefusedStep]_vars

\* A send_message was refused for an empty field and a private message was
\* stored: the lobby holds only its earlier message, the conversation one entry.
C22_Witness ==
    \E h \in Reqs, g \in Reqs :
        /\ handlers[h].kind = "send" /\ handlers[h].outcome = "invalid"
        /\ handlers[g].kind = "pm" /\ handlers[g].outcome = "offline"
        /\ Len(roomLog["lobby"]) = 1
        /\ Len(pmLog[PMKey("alice", "bob")]) = 1

C24_WriteStillCompletes ==
    \A h \in Reqs : handlers[h].pc = "send_rpush" => ENABLED SendMessageStore(h)

C25_Parseable(window) ==
    LET good == SelectSeq(window, CanParse)
    IN  [i \in 1..Len(good) |-> Parse(good[i])]

\* The window of the list that the page of an index covers.
C25_PageWindow(list, pageSize, pageIndex) ==
    LET hi == Len(list) - pageIndex * pageSize
        lo == Max(hi - pageSize + 1, 1)
    IN  IF hi < 1 THEN <<>> ELSE SubSeq(list, lo, hi)

\* Tail and page of every room log are the parseable entries of their window.
C25_ReadsSkipCorrupt ==
    \A r \in RoomNames :
        LET log == roomLog[r] IN
        /\ GetLastMessages(log) =
               C25_Parseable(SubSeq(log, Max(Len(log) - TailCount, 0) + 1, Len(log)))
        /\ \A pageSize \in 1..MaxPageSize, pageIndex \in 0..MaxPageIndex :
               GetMessagesPage(log, pageSize, pageIndex) =
                   C25_Parseable(C25_PageWindow(log, pageSize, pageIndex))

\* The last step of a join or of a fetch that read the log delivers the
\* parseable entries that its range read returned, as last_messages or
\* older_messages and not as an error.
C25_HandlerStep ==
    \A h \in Reqs :
        LET c == handlers[h].conn IN
        /\ (handlers[h].pc = "join_emit" /\ handlers'[h].pc = "done" /\ Open(c))
               => NewEvents(c) =
                      <<Event("last_messages", C25_Parseable(handlers[h].items), h)>>
        /\ (handlers[h].pc = "fetch_emit" /\ handlers'[h].pc = "done" /\ Open(c))
               => NewEvents(c) =
                      <<Event("older_messages", C25_Parseable(handlers[h].items), h)>>

\* Without a rejected command nobody holds an error event.
C25_NoErrorFromCorrupt ==
    nfail = 0 => \A c \in Conns : \A i \in DOMAIN outbox[c] : outbox[c][i].type # "error"

\* C25: a stored entry that fails to deserialize is skipped without failing
\* the read: tail and page return exactly the parseable entries of their
\* window, in log order, and a corrupt entry raises no error.
C25_CorruptEntriesSkipped ==
    /\ [](C25_ReadsSkipCorrupt /\ C25_NoErrorFromCorrupt)
    /\ [][C25_HandlerStep]_vars

\* The lobby holds 12 entries, one of its last 10 corrupt: a join delivered
\* last_messages with the other 9, and a fetch delivered a page, without any
\* rejected command and without an error event.
C25_Witness ==
    \E h \in Reqs, g \in Reqs :
        LET c == handlers[h].conn
            t == handlers[g].conn
        IN  /\ handlers[h] = Done("join", c, "ok")
            /\ handlers[g] = Done("fetch", t, "ok")
            /\ Len(roomLog["lobby"]) = MaxLog
            /\ \E i \in Delivered(c, "last_messages", h) :
                   Len(outbox[c][i].data) = TailCount - 1
            /\ Delivered(t, "older_messages", g) # {}
            /\ nfail = 0

\* ------------------------------------------------------------------ C26
\* The delay the policy gives for attempt number r.
C26_Delay(r) == IF r * 100 <= 3000 THEN r * 100 ELSE 3000

\* The policy as a function: below the maximum and without shutdown the delay
\* is min(r * 100, 3000), at most 3000 and not below the delay of the attempt
\* before; otherwise there is no retry.
C26_Policy ==
    \A k \in RedisClients : \A r \in 0..(MaxRetryAttempts + 1) :
        IF isShuttingDown[k] \/ r >= retryAttempts
        THEN ReconnectStrategy(k, r) = NoRetry
        ELSE /\ ReconnectStrategy(k, r) = C26_Delay(r)
             /\ ReconnectStrategy(k, r) <= 3000
             /\ r > 0 => ReconnectStrategy(k, r - 1) <= ReconnectStrategy(k, r)

\* A client that waits for its next attempt waits min(r * 100, 3000) ms for
\* an r below the maximum.
C26_Waiting ==
    \A k \in RedisClients :
        redisClient[k].phase = "waiting"
            => /\ redisClient[k].retryIn = C26_Delay(redisClient[k].retries)
               /\ redisClient[k].retryIn \in 0..3000
               /\ redisClient[k].retries < retryAttempts

\* A failure at the maximum, or after shutdown began, ends the client, and an
\* ended client makes no further attempt.
C26_GiveUpStep ==
    \A k \in RedisClients :
        /\ ( /\ redisClient[k].phase \in {"connecting", "ready"}
             /\ redisClient'[k].phase \notin {"connecting", "ready"}
             /\ (isShuttingDown[k] \/ redisClient'[k].retries >= retryAttempts) )
               => redisClient'[k].phase = "ended"
        /\ redisClient[k].phase = "ended" => redisClient'[k] = redisClient[k]

C27_Quiet ==
    /\ InFlight = {}
    /\ \A c \in Conns : disc[c].pc \in {"idle", "done"}
    /\ nfail = 0

\* When nothing is in progress, an entry of the presence directory names a
\* socket that is not closed and is bound to the entry's username.
C27_NoStaleEntry ==
    C27_Quiet =>
        \A u \in Names :
            presence[u] # Null
                => /\ status[presence[u]] # "closed"
                   /\ dataUsername[presence[u]] = u

\* The unbind of a closing socket does not remove the entry of another
\* socket that is open and bound to the username.
C27_UnbindStep ==
    \A c \in Conns : \A u \in Names :
        ( /\ disc[c].pc = "disc_del"
          /\ presence[u] \notin {Null, c}
          /\ Open(presence[u])
          /\ dataUsername[presence[u]] = u )
            => presence'[u] = presence[u]

\* C27: presence consistency: an entry u -> c means that c is live and bound
\* to u; no stale entry survives a disconnect, and the disconnect of one
\* socket does not take the entry of a live joined socket away.
C27_PresenceConsistent == []C27_NoStaleEntry /\ [][C27_UnbindStep]_vars

\* ------------------------------------------------------------------ C28
\* C28: every socket has received the receive_message events of a room in
\* the order in which their entries stand in the log of the room.
C28_DeliveryOrderIsLogOrder ==
    \A c \in Conns : \A i \in DOMAIN outbox[c], j \in DOMAIN outbox[c] :
        ( /\ i < j
          /\ outbox[c][i].type = "receive_message"
          /\ outbox[c][j].type = "receive_message"
          /\ outbox[c][i].data.room = outbox[c][j].data.room )
            => LET log == roomLog[outbox[c][i].data.room] IN
               \A p \in EntriesOf(log, outbox[c][i].by), q \in EntriesOf(log, outbox[c][j].by) :
                   p < q

\* ------------------------------------------------------------------ C29
\* The publish of a stored message reaches every open socket that a join has
\* bound to the room, whether the join has read the history or not.
C29_PublishStep ==
    \A g \in Reqs :
        (handlers[g].pc = "send_emit" /\ handlers'[g].pc = "done")
            => \A c \in Conns :
                   (Open(c) /\ dataRoom[c] = handlers[g].data.room)
                       => \E i \in 1..Len(NewEvents(c)) :
                              /\ NewEvents(c)[i].type = "receive_message"
                              /\ NewEvents(c)[i].by = g

\* A join that reads the history is subscribed already, and so is every open
\* socket whose join has read it.
C29_SubscribedBeforeRead ==
    /\ \A h \in Reqs :
           (handlers[h].pc \in {"join_llen", "join_lrange", "join_emit"} /\ Open(handlers[h].conn))
               => handlers[h].data.room \in rooms[handlers[h].conn]
    /\ \A c \in Conns : (Open(c) /\ dataRoom[c] # Null) => dataRoom[c] \in rooms[c]

\* The range read of the join of an open socket: every entry of the log with
\* fewer than 10 entries after it is among the items read, or was appended
\* by a send handler that has published it to the socket or is about to.
C29_ReadStep ==
    \A h \in Reqs :
        LET c == handlers[h].conn
            log == roomLog[handlers[h].data.room]
        IN  (handlers[h].pc = "join_lrange" /\ handlers'[h].pc = "join_emit" /\ Open(c))
                => \A p \in DOMAIN log :
                       p > Len(log) - TailCount
                           => \/ \E i \in DOMAIN handlers'[h].items : handlers'[h].items[i] = log[p]
                              \/ \E g \in Reqs :
                                     /\ p \in EntriesOf(log, g)
                                     /\ \/ handlers[g].pc = "send_emit"
                                        \/ Delivered(c, "receive_message", g) # {}

\* C29: no message is lost across a join that races with sends: the joiner
\* is subscribed before the history is read, so a message that is among the
\* last 10 at the read is read or published to the joiner, and every message
\* appended after the read is delivered to the joiner as receive_message.
C29_NoMessageLostAcrossJoin ==
    /\ []C29_SubscribedBeforeRead
    /\ [][C29_PublishStep /\ C29_ReadStep]_vars

\* A join and a send have raced: the join read the history before the send
\* appended its message, so last_messages is without it, and the joiner has
\* received it as receive_message.
C29_Witness ==
    \E h \in Reqs, g \in Reqs :
        LET c == handlers[h].conn IN
        /\ handlers[h] = Done("join", c, "ok")
        /\ handlers[g] = Done("send", handlers[g].conn, "ok")
        /\ handlers[g].conn # c
        /\ Open(c)
        /\ EntriesOf(roomLog["lobby"], g) # {}
        /\ \E i \in Delivered(c, "last_messages", h) :
               /\ outbox[c][i].data # <<>>
               /\ \A k \in DOMAIN outbox[c][i].data : outbox[c][i].data[k].timestamp # g
        /\ Delivered(c, "receive_message", g) # {}

\* ------------------------------------------------------------------ C30
\* C30: when no handler is in progress, an open socket is in at most one
\* room, the room it is bound to, and the presence directory holds it under
\* no other username than the one it is bound to.
C30_OneRoomOneName ==
    InFlight = {} =>
        \A c \in Conns :
            Open(c) =>
                /\ Cardinality(rooms[c]) <= 1
                /\ rooms[c] \subseteq {dataRoom[c]}
                /\ \A u \in Names : presence[u] = c => u = dataUsername[c]

\* ------------------------------------------------------------------ C31
\* The socket is joined and bound to this username and this room.
C31_JoinedAs(c, username, room) ==
    /\ Open(c)
    /\ dataUsername[c] # Null
    /\ dataUsername[c] = username
    /\ dataRoom[c] = room

\* The append and the publish of a send handler are steps of a socket that
\* is joined as the sender to the room of the message.
C31_SendStep ==
    \A h \in Reqs :
        ( \/ handlers[h].pc = "send_rpush" /\ handlers'[h].pc = "send_emit"
          \/ handlers[h].pc = "send_emit" /\ handlers'[h].pc = "done" )
            => C31_JoinedAs(handlers[h].conn, handlers[h].data.username, handlers[h].data.room)

\* The append of a private message is a step of a socket bound to its from.
C31_PrivateStep ==
    \A h \in Reqs :
        (handlers[h].pc = "pm_rpush" /\ handlers'[h].pc = "pm_lookup")
            => dataUsername[handlers[h].conn] = handlers[h].data.from

\* C31: every message that is appended to a room log and published was sent
\* by a socket that is joined at that time, with the socket's bound username
\* as sender and its bound room as room; a socket that never joined causes
\* no append and no broadcast, and the from of a private message is the
\* bound username of the sending socket.
C31_OnlyJoinedSendersAsThemselves == [][C31_SendStep /\ C31_PrivateStep]_vars

\* ------------------------------------------------------------------ C32
\* The success event of a request.
C32_SuccessEvent(kind) ==
    CASE kind = "join" -> "last_messages"
      [] kind = "send" -> "receive_message"
      [] kind = "pm" -> "private_message_sent"
      [] kind = "fetch" -> "older_messages"
      [] OTHER -> Null

\* The socket of request h holds the success event of h or an error event of h.
C32_Answered(h) ==
    \E i \in DOMAIN outbox[handlers[h].conn] :
        LET e == outbox[handlers[h].conn][i] IN
        /\ e.by = h
        /\ e.type \in {C32_SuccessEvent(handlers[h].kind), "error"}

\* C32: under fair scheduling every inbound join_room, send_message,
\* send_private_message and fetch_older_messages leads to its success event
\* or to an error event on the requester's socket, unless that socket has
\* closed; no request is dropped silently.
C32_EveryRequestAnswered ==
    \A h \in Reqs :
        (handlers[h].kind # "none")
            ~> ( /\ handlers[h].kind # "none"
                 /\ \/ status[handlers[h].conn] = "closed"
                    \/ C32_Answered(h) )

====
